---------------------------- MODULE Spec2Model ----------------------------
(***************************************************************************)
(* A model of the Boolean / phrase / proximity search engine of            *)
(* task1 (dictionary, compressed inverted index, incidence matrix, bigram  *)
(* and coordinate indices, SPIMI builder, front-packed dictionary).        *)
(*                                                                         *)
(* Strings of queries, terms and document names are TLA+ strings (finite   *)
(* sequences of characters); a character is a string of length 1.          *)
(***************************************************************************)
EXTENDS Integers, Sequences, FiniteSets, TLC

VARIABLES
    corpus,     \* the files accepted by the build so far: a sequence of [name, words, size]
    built,      \* TRUE once the dictionary and the indices have been built
    idx,        \* the dictionary and the indices built from the corpus
    op,         \* the last search operation applied
    res,        \* the outcome of that operation for every evaluator
    spimi,      \* a SPIMIIndexer, its block files, and the Dictionary finalize returned
    cdict,      \* a CompressedDictionary under construction and use
    wild,       \* the wildcard indices and engine, and the last pattern searched
    dict        \* a Dictionary under construction and the structures built from it

vars == <<corpus, built, idx, op, res, spimi, cdict, wild, dict>>

---------------------------------------------------------------------------
(* Characters and strings                                                  *)

\* The printable ASCII characters in code order: codes 32..95 and 97..126
\* (code 96, the backtick, cannot be written in a TLA+ string and is left out).
AsciiLow == " !\"#$%&'()*+,-./0123456789:;<=>?@ABCDEFGHIJKLMNOPQRSTUVWXYZ[\\]^_"

AsciiHigh == "abcdefghijklmnopqrstuvwxyz{|}~"

CharAt(s, i) == SubSeq(s, i, i)

IndexIn(alphabet, c) == CHOOSE i \in 1..Len(alphabet) : CharAt(alphabet, i) = c

\* The code of a printable ASCII character (Rust compares strings bytewise).
Ord(c) ==
    IF \E i \in 1..Len(AsciiHigh) : CharAt(AsciiHigh, i) = c
    THEN 96 + IndexIn(AsciiHigh, c)
    ELSE 31 + IndexIn(AsciiLow, c)

Chr(n) == IF n >= 97 THEN CharAt(AsciiHigh, n - 96) ELSE CharAt(AsciiLow, n - 31)

RECURSIVE StrLess(_, _)
\* a < b in the bytewise lexicographic order of Rust's str
StrLess(a, b) ==
    IF Len(b) = 0 THEN FALSE
    ELSE IF Len(a) = 0 THEN TRUE
    ELSE IF CharAt(a, 1) = CharAt(b, 1)
         THEN StrLess(SubSeq(a, 2, Len(a)), SubSeq(b, 2, Len(b)))
         ELSE Ord(CharAt(a, 1)) < Ord(CharAt(b, 1))

RECURSIVE SortedSeq(_)
\* Vec::sort of the strings of a set: the ascending sequence of its elements
SortedSeq(S) ==
    IF S = {} THEN <<>>
    ELSE LET m == CHOOSE x \in S : \A y \in S : x = y \/ StrLess(x, y)
         IN  <<m>> \o SortedSeq(S \ {m})

RECURSIVE Reverse(_)
Reverse(s) == IF s = <<>> THEN <<>> ELSE Reverse(Tail(s)) \o <<Head(s)>>

\* The order in which a HashSet or the keys of a HashMap are iterated is
\* unspecified; the model iterates in descending order, the order farthest
\* from the one the code restores by sorting.
HashIter(S) == Reverse(SortedSeq(S))

RECURSIVE to_lowercase(_)
\* str::to_lowercase on ASCII text: 'A'..'Z' are mapped to 'a'..'z'
to_lowercase(s) ==
    IF Len(s) = 0 THEN ""
    ELSE LET c == CharAt(s, 1)
             lc == IF Ord(c) >= 65 /\ Ord(c) <= 90 THEN Chr(Ord(c) + 32) ELSE c
         IN  lc \o to_lowercase(SubSeq(s, 2, Len(s)))

IsWhitespace(c) == c \in {" ", "\t", "\n", "\r"}

RECURSIVE trim_start(_)
trim_start(s) ==
    IF Len(s) > 0 /\ IsWhitespace(CharAt(s, 1))
    THEN trim_start(SubSeq(s, 2, Len(s))) ELSE s

RECURSIVE trim_end(_)
trim_end(s) ==
    IF Len(s) > 0 /\ IsWhitespace(CharAt(s, Len(s)))
    THEN trim_end(SubSeq(s, 1, Len(s) - 1)) ELSE s

\* str::trim
trim(s) == trim_end(trim_start(s))

RECURSIVE JoinWith(_, _)
\* [String]::join(sep)
JoinWith(ws, sep) ==
    IF ws = <<>> THEN ""
    ELSE IF Len(ws) = 1 THEN ws[1]
    ELSE ws[1] \o sep \o JoinWith(Tail(ws), sep)

Range(s) == {s[i] : i \in 1..Len(s)}

---------------------------------------------------------------------------
(* query.rs: the query tokenizer                                           *)

RECURSIVE tokenize_loop(_, _, _, _)
\* the `while let Some(ch) = chars.next()` loop of tokenize, from character i
tokenize_loop(query, i, tokens, current_token) ==
    IF i > Len(query)
    THEN IF current_token # "" THEN Append(tokens, trim(current_token)) ELSE tokens
    ELSE LET ch == CharAt(query, i)
             flushed == IF current_token # ""
                        THEN Append(tokens, trim(current_token)) ELSE tokens
         IN  IF ch \in {"(", ")"}
             THEN tokenize_loop(query, i + 1, Append(flushed, ch), "")
             ELSE IF ch = " "
             THEN tokenize_loop(query, i + 1, flushed, "")
             ELSE tokenize_loop(query, i + 1, tokens, current_token \o ch)

tokenize(query) == tokenize_loop(query, 1, <<>>, "")

---------------------------------------------------------------------------
(* dictionary.rs: Dictionary                                               *)

EmptyMap == [x \in {} |-> x]

Dictionary_new ==
    [terms |-> EmptyMap, term_lookup |-> EmptyMap, terms_string |-> "",
     total_words |-> 0, total_documents |-> 0, collection_size_bytes |-> 0]

\* Dictionary::get_term: Some(term) as <<term>>, None as <<>>
Dictionary_get_term(d, start_pos) ==
    IF start_pos \in DOMAIN d.terms
    THEN <<SubSeq(d.terms_string, start_pos + 1, start_pos + d.terms[start_pos].length)>>
    ELSE <<>>

\* Dictionary::find_or_add_term: the dictionary after the call and the position returned
find_or_add_term(d, term) ==
    IF term \in DOMAIN d.term_lookup
    THEN [dict |-> d, start_pos |-> d.term_lookup[term]]
    ELSE LET start_pos == Len(d.terms_string)
         IN  [dict |-> [d EXCEPT !.terms_string = @ \o term,
                                 !.term_lookup = @ @@ (term :> start_pos)],
              start_pos |-> start_pos]

\* add_term that leaves total_words alone
add_term_total_unchanged(d, term, document) ==
    LET r == find_or_add_term(d, term)
        start_pos == r.start_pos
        entry == IF start_pos \in DOMAIN r.dict.terms
                 THEN r.dict.terms[start_pos]
                 ELSE [frequency |-> 0, documents |-> {},
                       start_pos |-> start_pos, length |-> Len(term)]
    IN  [r.dict EXCEPT !.terms = (start_pos :> [entry EXCEPT !.frequency = @ + 1,
                                                   !.documents = @ \cup {document}]) @@ @]

add_term(d, term, document) ==
    LET r == find_or_add_term(d, term)
        d1 == r.dict
        start_pos == r.start_pos
        entry == IF start_pos \in DOMAIN d1.terms
                 THEN d1.terms[start_pos]
                 ELSE [frequency |-> 0, documents |-> {},
                       start_pos |-> start_pos, length |-> Len(term)]
        entry1 == [entry EXCEPT !.frequency = @ + 1,
                                !.documents = @ \cup {document}]
    IN  [d1 EXCEPT !.terms = (start_pos :> entry1) @@ @,
                   !.total_words = @ + 1]

RECURSIVE merge_terms(_, _)
\* Dictionary::merge_terms over a list of <<term, document>> pairs
merge_terms(d, terms) ==
    IF terms = <<>> THEN d
    ELSE merge_terms(add_term(d, terms[1][1], terms[1][2]), Tail(terms))

add_file_stats(d, file_size) ==
    [d EXCEPT !.collection_size_bytes = @ + file_size,
              !.total_documents = @ + 1]

RECURSIVE build_dictionary_merge(_, _)
\* lib.rs build_dictionary, the sequential merge of the accepted files' results
build_dictionary_merge(d, results) ==
    IF results = <<>> THEN d
    ELSE LET r == results[1]
             terms == [i \in 1..Len(r.words) |-> <<r.words[i], r.name>>]
         IN  build_dictionary_merge(
                 merge_terms(add_file_stats(d, r.size), terms), Tail(results))

build_dictionary(results) == build_dictionary_merge(Dictionary_new, results)

\* The terms of a dictionary, as strings
DictTerms(d) == {Dictionary_get_term(d, sp)[1] : sp \in DOMAIN d.terms}

\* The documents of a term of the dictionary
DictDocs(d, term) == d.terms[d.term_lookup[term]].documents

---------------------------------------------------------------------------
(* inverted_index.rs: variable-byte and delta encoding                     *)

\* Document ids are u32 in the code. The model's integers end at 2^31 - 1, so
\* the ids of the model stay below 2^31; on such ids no u32 operation of the
\* codec wraps (a gap is at most the id, a decoded prefix sum at most the id).

RECURSIVE Pow2(_)
Pow2(k) == IF k = 0 THEN 1 ELSE 2 * Pow2(k - 1)

RECURSIVE encode_vb_8bit(_)
\* encode_vb that takes groups of 8 bits
encode_vb_8bit(n) ==
    IF n >= 256 THEN <<n % 256>> \o encode_vb_8bit(n \div 256)
    ELSE <<n>>

RECURSIVE encode_vb(_)
\* vb_encoding::encode_vb(n: u32): low groups of 7 bits first, the last byte +128
encode_vb(n) ==
    IF n >= 128 THEN <<n % 128>> \o encode_vb(n \div 128)
    ELSE <<n + 128>>

RECURSIVE decode_vb_number(_, _, _, _)
\* the inner loop of decode_vb: the number read from byte i on, and the next index
decode_vb_number(bytes, i, n, shift) ==
    IF i > Len(bytes) THEN [n |-> n, next |-> i]
    ELSE LET byte == bytes[i]
         IN  IF byte < 128
             THEN decode_vb_number(bytes, i + 1, n + byte * Pow2(shift), shift + 7)
             ELSE [n |-> n + (byte - 128) * Pow2(shift), next |-> i + 1]

RECURSIVE decode_vb_from(_, _)
decode_vb_from(bytes, i) ==
    IF i > Len(bytes) THEN <<>>
    ELSE LET r == decode_vb_number(bytes, i, 0, 0)
         IN  <<r.n>> \o decode_vb_from(bytes, r.next)

decode_vb(bytes) == decode_vb_from(bytes, 1)

RECURSIVE InsertSorted(_, _)
InsertSorted(x, s) ==
    IF s = <<>> THEN <<x>>
    ELSE IF x <= s[1] THEN <<x>> \o s
    ELSE <<s[1]>> \o InsertSorted(x, Tail(s))

RECURSIVE sort_unstable(_)
\* slice::sort_unstable on integers
sort_unstable(s) == IF s = <<>> THEN <<>> ELSE InsertSorted(s[1], sort_unstable(Tail(s)))

RECURSIVE encode_deltas(_, _)
\* the `for num in numbers` loop of encode_delta_vb (numbers is sorted: num >= prev)
encode_deltas(numbers, prev) ==
    IF numbers = <<>> THEN <<>>
    ELSE LET delta == numbers[1] - prev
         IN  encode_vb(delta) \o encode_deltas(Tail(numbers), numbers[1])

encode_delta_vb(numbers) ==
    IF numbers = <<>> THEN <<>>
    ELSE encode_deltas(sort_unstable(numbers), 0)

RECURSIVE prefix_sums(_, _)
prefix_sums(deltas, current) ==
    IF deltas = <<>> THEN <<>>
    ELSE LET c == current + deltas[1]
         IN  <<c>> \o prefix_sums(Tail(deltas), c)

\* decode_delta_vb that returns the gaps without summing them
decode_delta_vb_gaps(bytes) == decode_vb(bytes)
decode_delta_vb(bytes) == prefix_sums(decode_vb(bytes), 0)

---------------------------------------------------------------------------
(* inverted_index.rs: InvertedIndex and CompressedInvertedIndex            *)

\* InvertedIndex::from_dictionary (the sequential branch, taken below 1000 terms)
InvertedIndex_from_dictionary(dictionary) ==
    [index |-> [t \in DictTerms(dictionary) |-> DictDocs(dictionary, t)],
     documents |-> SortedSeq(UNION {dictionary.terms[sp].documents :
                                        sp \in DOMAIN dictionary.terms})]

RECURSIVE filter_map_ids(_, _)
\* docs.iter().filter_map(|doc| doc_name_to_id.get(doc).copied()).collect()
filter_map_ids(docs, doc_name_to_id) ==
    IF docs = <<>> THEN <<>>
    ELSE (IF docs[1] \in DOMAIN doc_name_to_id
          THEN <<doc_name_to_id[docs[1]]>> ELSE <<>>)
         \o filter_map_ids(Tail(docs), doc_name_to_id)

\* CompressedInvertedIndex::from_inverted_index (the sequential branch)
from_inverted_index(index) ==
    LET doc_id_to_name == SortedSeq(Range(index.documents))
        doc_name_to_id == [name \in Range(doc_id_to_name) |->
                              (CHOOSE i \in 1..Len(doc_id_to_name) :
                                   doc_id_to_name[i] = name) - 1]
    IN  [compressed_index |->
             [term \in DOMAIN index.index |->
                 encode_delta_vb(filter_map_ids(HashIter(index.index[term]),
                                                doc_name_to_id))],
         doc_id_to_name |-> doc_id_to_name,
         doc_name_to_id |-> doc_name_to_id]

CompressedInvertedIndex_from_dictionary(dictionary) ==
    from_inverted_index(InvertedIndex_from_dictionary(dictionary))

RECURSIVE filter_map_names(_, _)
\* doc_ids.into_iter().filter_map(|id| doc_id_to_name.get(id as usize).cloned())
filter_map_names(doc_ids, doc_id_to_name) ==
    IF doc_ids = <<>> THEN <<>>
    ELSE (IF doc_ids[1] < Len(doc_id_to_name)
          THEN <<doc_id_to_name[doc_ids[1] + 1]>> ELSE <<>>)
         \o filter_map_names(Tail(doc_ids), doc_id_to_name)

\* CompressedInvertedIndex::get_documents_for_term: Some(list) as <<list>>, None as <<>>
get_documents_for_term(self, term) ==
    IF term \in DOMAIN self.compressed_index
    THEN <<filter_map_names(decode_delta_vb(self.compressed_index[term]),
                            self.doc_id_to_name)>>
    ELSE <<>>

\* Results of the evaluators: Ok(val) with the position reached, or Err(err)
Ok(val, pos) == [ok |-> TRUE, val |-> val, pos |-> pos, err |-> ""]
Err(msg, pos) == [ok |-> FALSE, val |-> {}, pos |-> pos, err |-> msg]

\* search_term that takes an absent term for a term of no document
CII_search_term_absent_empty(self, term, pos) ==
    LET docs == get_documents_for_term(self, term)
    IN  Ok(IF docs # <<>> THEN Range(docs[1]) ELSE {}, pos)

CII_search_term(self, term, pos) ==
    LET docs == get_documents_for_term(self, term)
    IN  IF docs # <<>> THEN Ok(Range(docs[1]), pos)
        ELSE Err("Term '" \o term \o "' not found", pos)

RECURSIVE CII_parse_or_expr(_, _, _)
RECURSIVE CII_or_loop(_, _, _)
RECURSIVE CII_parse_and_expr(_, _, _)
RECURSIVE CII_and_loop(_, _, _)
RECURSIVE CII_parse_not_expr(_, _, _)
RECURSIVE CII_parse_primary(_, _, _)

\* one turn of the `while ... == "or"` loop, `right` being the parsed operand
CII_or_step(self, tokens, acc, right) ==
    IF ~right.ok THEN right
    ELSE CII_or_loop(self, tokens, Ok(acc.val \cup right.val, right.pos))

\* the `while ... tokens[*pos] == "or"` loop of parse_or_expr; acc is Ok(result)
CII_or_loop(self, tokens, acc) ==
    IF acc.pos < Len(tokens) /\ tokens[acc.pos + 1] = "or"
    THEN CII_or_step(self, tokens, acc, CII_parse_and_expr(self, tokens, acc.pos + 1))
    ELSE acc

\* the `?` on the first operand, then the loop
CII_or_first(self, tokens, result) ==
    IF ~result.ok THEN result ELSE CII_or_loop(self, tokens, result)

CII_parse_or_expr(self, tokens, pos) ==
    CII_or_first(self, tokens, CII_parse_and_expr(self, tokens, pos))

\* one turn of the `while ... == "and"` loop, `right` being the parsed operand
CII_and_step(self, tokens, acc, right) ==
    IF ~right.ok THEN right
    ELSE CII_and_loop(self, tokens, Ok(acc.val \cap right.val, right.pos))

CII_and_loop(self, tokens, acc) ==
    IF acc.pos < Len(tokens) /\ tokens[acc.pos + 1] = "and"
    THEN CII_and_step(self, tokens, acc, CII_parse_not_expr(self, tokens, acc.pos + 1))
    ELSE acc

\* the `?` on the first operand, then the loop
CII_and_first(self, tokens, result) ==
    IF ~result.ok THEN result ELSE CII_and_loop(self, tokens, result)

CII_parse_and_expr(self, tokens, pos) ==
    CII_and_first(self, tokens, CII_parse_not_expr(self, tokens, pos))

\* the `not` branch of parse_not_expr, `result` being the parsed operand
CII_not_result(self, result) ==
    IF ~result.ok THEN result
    ELSE Ok(Range(self.doc_id_to_name) \ result.val, result.pos)

\* parse_not_expr that forgets the complement
CII_parse_not_expr_no_complement(self, tokens, pos) ==
    IF pos < Len(tokens) /\ tokens[pos + 1] = "not"
    THEN CII_parse_primary(self, tokens, pos + 1)
    ELSE CII_parse_primary(self, tokens, pos)

CII_parse_not_expr(self, tokens, pos) ==
    IF pos < Len(tokens) /\ tokens[pos + 1] = "not"
    THEN CII_not_result(self, CII_parse_primary(self, tokens, pos + 1))
    ELSE CII_parse_primary(self, tokens, pos)

\* the "(" branch of parse_primary after the inner expression was parsed
CII_primary_paren(tokens, result) ==
    IF ~result.ok THEN result
    ELSE IF result.pos >= Len(tokens) \/ tokens[result.pos + 1] # ")"
    THEN Err("Missing closing parenthesis", result.pos)
    ELSE Ok(result.val, result.pos + 1)

CII_parse_primary(self, tokens, pos) ==
    IF pos >= Len(tokens) THEN Err("Unexpected end of query", pos)
    ELSE IF tokens[pos + 1] = "("
    THEN CII_primary_paren(tokens, CII_parse_or_expr(self, tokens, pos + 1))
    ELSE CII_search_term(self, tokens[pos + 1], pos + 1)

\* impl QueryParser for CompressedInvertedIndex: search
CII_search(self, query) ==
    CII_parse_or_expr(self, tokenize(to_lowercase(query)), 0)

---------------------------------------------------------------------------
(* incidence_matrix.rs: IncidenceMatrix; a BitVec is a sequence of BOOLEAN *)

IncidenceMatrix_from_dictionary(dictionary) ==
    LET terms == SortedSeq(DictTerms(dictionary))
        documents == SortedSeq(UNION {dictionary.terms[sp].documents :
                                          sp \in DOMAIN dictionary.terms})
    IN  [terms |-> terms,
         documents |-> documents,
         matrix |-> [r \in 1..Len(terms) |->
                        [c \in 1..Len(documents) |->
                            documents[c] \in DictDocs(dictionary, terms[r])]]]

BitVec_or(a, b) == [i \in 1..Len(a) |-> a[i] \/ b[i]]
\* BitVec::and that does not clear the bits missing from the other operand
BitVec_and_keeps_self(a, b) == [i \in 1..Len(a) |-> a[i]]
BitVec_and(a, b) == [i \in 1..Len(a) |-> a[i] /\ b[i]]
BitVec_negate(a) == [i \in 1..Len(a) |-> ~a[i]]

IM_search_term(self, term, pos) ==
    IF \E i \in 1..Len(self.terms) : self.terms[i] = term
    THEN LET term_idx == CHOOSE i \in 1..Len(self.terms) : self.terms[i] = term
         IN  Ok(self.matrix[term_idx], pos)
    ELSE Err("Term '" \o term \o "' not found", pos)

RECURSIVE IM_parse_or_expr(_, _, _)
RECURSIVE IM_or_loop(_, _, _)
RECURSIVE IM_parse_and_expr(_, _, _)
RECURSIVE IM_and_loop(_, _, _)
RECURSIVE IM_parse_not_expr(_, _, _)
RECURSIVE IM_parse_primary(_, _, _)

\* one turn of the `while ... == "or"` loop, `right` being the parsed operand
IM_or_step(self, tokens, acc, right) ==
    IF ~right.ok THEN right
    ELSE IM_or_loop(self, tokens, Ok(BitVec_or(acc.val, right.val), right.pos))

\* the `while ... tokens[*pos] == "or"` loop of parse_or_expr; acc is Ok(result)
IM_or_loop(self, tokens, acc) ==
    IF acc.pos < Len(tokens) /\ tokens[acc.pos + 1] = "or"
    THEN IM_or_step(self, tokens, acc, IM_parse_and_expr(self, tokens, acc.pos + 1))
    ELSE acc

\* the `?` on the first operand, then the loop
IM_or_first(self, tokens, result) ==
    IF ~result.ok THEN result ELSE IM_or_loop(self, tokens, result)

IM_parse_or_expr(self, tokens, pos) ==
    IM_or_first(self, tokens, IM_parse_and_expr(self, tokens, pos))

\* one turn of the `while ... == "and"` loop, `right` being the parsed operand
IM_and_step(self, tokens, acc, right) ==
    IF ~right.ok THEN right
    ELSE IM_and_loop(self, tokens, Ok(BitVec_and(acc.val, right.val), right.pos))

IM_and_loop(self, tokens, acc) ==
    IF acc.pos < Len(tokens) /\ tokens[acc.pos + 1] = "and"
    THEN IM_and_step(self, tokens, acc, IM_parse_not_expr(self, tokens, acc.pos + 1))
    ELSE acc

\* the `?` on the first operand, then the loop
IM_and_first(self, tokens, result) ==
    IF ~result.ok THEN result ELSE IM_and_loop(self, tokens, result)

IM_parse_and_expr(self, tokens, pos) ==
    IM_and_first(self, tokens, IM_parse_not_expr(self, tokens, pos))

\* the `not` branch of parse_not_expr, `result` being the parsed operand
IM_not_result(self, result) ==
    IF ~result.ok THEN result
    ELSE Ok(BitVec_negate(result.val), result.pos)

IM_parse_not_expr(self, tokens, pos) ==
    IF pos < Len(tokens) /\ tokens[pos + 1] = "not"
    THEN IM_not_result(self, IM_parse_primary(self, tokens, pos + 1))
    ELSE IM_parse_primary(self, tokens, pos)

\* the "(" branch of parse_primary after the inner expression was parsed
IM_primary_paren(tokens, result) ==
    IF ~result.ok THEN result
    ELSE IF result.pos >= Len(tokens) \/ tokens[result.pos + 1] # ")"
    THEN Err("Missing closing parenthesis", result.pos)
    ELSE Ok(result.val, result.pos + 1)

IM_parse_primary(self, tokens, pos) ==
    IF pos >= Len(tokens) THEN Err("Unexpected end of query", pos)
    ELSE IF tokens[pos + 1] = "("
    THEN IM_primary_paren(tokens, IM_parse_or_expr(self, tokens, pos + 1))
    ELSE IM_search_term(self, tokens[pos + 1], pos + 1)

\* impl QueryParser for IncidenceMatrix: search
IM_search(self, query) ==
    IM_parse_or_expr(self, tokenize(to_lowercase(query)), 0)

RECURSIVE SelectSeq2(_, _, _)
\* the elements documents[i] (i >= from) whose bit is set, in order
SelectSeq2(documents, bits, from) ==
    IF from > Len(bits) THEN <<>>
    ELSE (IF bits[from] THEN <<documents[from]>> ELSE <<>>)
         \o SelectSeq2(documents, bits, from + 1)

\* IncidenceMatrix::get_matching_documents
get_matching_documents(self, result) == SelectSeq2(self.documents, result, 1)

---------------------------------------------------------------------------
(* coordinate_index.rs: CoordinateIndex                                    *)

RECURSIVE split_whitespace_loop(_, _, _, _)
split_whitespace_loop(s, i, words, current) ==
    IF i > Len(s)
    THEN IF current # "" THEN Append(words, current) ELSE words
    ELSE IF IsWhitespace(CharAt(s, i))
    THEN split_whitespace_loop(s, i + 1,
             IF current # "" THEN Append(words, current) ELSE words, "")
    ELSE split_whitespace_loop(s, i + 1, words, current \o CharAt(s, i))

\* str::split_whitespace
split_whitespace(s) == split_whitespace_loop(s, 1, <<>>, "")

RECURSIVE PositionsFrom(_, _, _)
\* the 0-based positions (from 1-based index i on) at which `word` occurs, ascending
PositionsFrom(words, word, i) ==
    IF i > Len(words) THEN <<>>
    ELSE (IF words[i] = word THEN <<i - 1>> ELSE <<>>)
         \o PositionsFrom(words, word, i + 1)

\* The documents the index builders re-read: those of the dictionary's term entries
DictDocuments(dictionary) ==
    UNION {dictionary.terms[sp].documents : sp \in DOMAIN dictionary.terms}

\* CoordinateIndex::from_dictionary_with_parser; file_parser maps a document
\* name to the words the parser callback returns for it
CoordinateIndex_from_dictionary_with_parser(dictionary, file_parser) ==
    LET documents == DictDocuments(dictionary)
        terms == UNION {Range(file_parser[d]) : d \in documents}
        postings(t) ==
            LET ds == SortedSeq({d \in documents : t \in Range(file_parser[d])})
            IN  [i \in 1..Len(ds) |->
                    [document |-> ds[i],
                     positions |-> PositionsFrom(file_parser[ds[i]], t, 1)]]
    IN  [index |-> [t \in terms |-> postings(t)],
         documents |-> SortedSeq(documents)]

CI_search_term(self, term, pos) ==
    IF term \in DOMAIN self.index
    THEN Ok({self.index[term][i].document : i \in 1..Len(self.index[term])}, pos)
    ELSE Err("Term '" \o term \o "' not found", pos)

\* word_postings.iter().find(|p| p.document == *document): <<posting>> or <<>>
FindPosting(word_postings, document) ==
    IF \E i \in 1..Len(word_postings) : word_postings[i].document = document
    THEN <<word_postings[CHOOSE i \in 1..Len(word_postings) :
                            word_postings[i].document = document]>>
    ELSE <<>>

RECURSIVE FilterNextPositions(_, _, _)
\* current_positions.iter().filter_map(|&pos| if positions.contains(pos + word_offset) ...)
FilterNextPositions(current_positions, positions, word_offset) ==
    IF current_positions = <<>> THEN <<>>
    ELSE (IF current_positions[1] + word_offset \in Range(positions)
          THEN <<current_positions[1] + word_offset>> ELSE <<>>)
         \o FilterNextPositions(Tail(current_positions), positions, word_offset)

RECURSIVE phrase_words_loop(_, _, _, _, _)
\* the `for (word_offset, word) in words.iter().enumerate().skip(1)` loop of
\* search_phrase for one posting of the first word: TRUE iff all_words_found
\* and current_positions is not empty at its end
phrase_words_loop(self, words, document, word_offset, current_positions) ==
    IF word_offset >= Len(words) THEN current_positions # <<>>
    ELSE LET word_lower == to_lowercase(words[word_offset + 1])
         IN  IF word_lower \notin DOMAIN self.index THEN FALSE
             ELSE LET found == FindPosting(self.index[word_lower], document)
                  IN  IF found = <<>> THEN FALSE
                      ELSE LET next_positions ==
                                   FilterNextPositions(current_positions,
                                       found[1].positions, word_offset)
                           IN  IF next_positions = <<>> THEN FALSE
                               ELSE phrase_words_loop(self, words, document,
                                        word_offset + 1, next_positions)

\* CoordinateIndex::search_phrase
CI_search_phrase(self, phrase, pos) ==
    LET words == split_whitespace(phrase)
    IN  IF words = <<>> THEN Ok({}, pos)
        ELSE IF Len(words) = 1 THEN CI_search_term(self, words[1], pos)
        ELSE LET first_word == to_lowercase(words[1])
             IN  IF first_word \notin DOMAIN self.index THEN Ok({}, pos)
                 ELSE LET first_postings == self.index[first_word]
                      IN  Ok({first_postings[i].document :
                                 i \in {j \in 1..Len(first_postings) :
                                     phrase_words_loop(self, words,
                                         first_postings[j].document, 1,
                                         first_postings[j].positions)}}, pos)

\* the distance without the `first_pos - pos` branch
AbsDiff_signed(a, b) == a - b
AbsDiff(a, b) == IF a > b THEN a - b ELSE b - a

\* the `for word in words.iter().skip(1)` loop of search_proximity for one
\* position of the first word: all_words_in_range
all_words_in_range(self, words, document, first_pos, max_distance) ==
    \A k \in 2..Len(words) :
        LET word_lower == to_lowercase(words[k])
        IN  /\ word_lower \in DOMAIN self.index
            /\ LET found == FindPosting(self.index[word_lower], document)
               IN  /\ found # <<>>
                   /\ \E i \in 1..Len(found[1].positions) :
                          AbsDiff(found[1].positions[i], first_pos) <= max_distance

\* CoordinateIndex::search_proximity
CI_search_proximity(self, words, max_distance, pos) ==
    IF Len(words) < 2 THEN Err("Proximity search requires at least two words", pos)
    ELSE LET first_word == to_lowercase(words[1])
         IN  IF first_word \notin DOMAIN self.index THEN Ok({}, pos)
             ELSE LET first_postings == self.index[first_word]
                      found_proximity(posting) ==
                          \E i \in 1..Len(posting.positions) :
                              all_words_in_range(self, words, posting.document,
                                  posting.positions[i], max_distance)
                  IN  Ok({first_postings[i].document :
                             i \in {j \in 1..Len(first_postings) :
                                 found_proximity(first_postings[j])}}, pos)


IsDigit(c) == Ord(c) >= 48 /\ Ord(c) <= 57

RECURSIVE ParseDigits(_, _)
ParseDigits(s, acc) ==
    IF Len(s) = 0 THEN acc
    ELSE ParseDigits(SubSeq(s, 2, Len(s)), 10 * acc + (Ord(CharAt(s, 1)) - 48))

\* str::parse::<usize>: Ok(n) as <<n>>, Err as <<>>; an optional '+' sign, then digits
parse_usize(s) ==
    LET digits == IF Len(s) > 0 /\ CharAt(s, 1) = "+" THEN SubSeq(s, 2, Len(s)) ELSE s
    IN  IF Len(digits) > 0 /\ \A i \in 1..Len(digits) : IsDigit(CharAt(digits, i))
        THEN <<ParseDigits(digits, 0)>>
        ELSE <<>>

starts_with(s, prefix) == Len(s) >= Len(prefix) /\ SubSeq(s, 1, Len(prefix)) = prefix

RECURSIVE CollectUntil(_, _, _)
\* the `while *pos < tokens.len() && tokens[*pos] != stop` loops of parse_primary:
\* the tokens collected and the position reached
CollectUntil(tokens, pos, stop) ==
    IF pos < Len(tokens) /\ tokens[pos + 1] # stop
    THEN LET r == CollectUntil(tokens, pos + 1, stop)
         IN  [words |-> <<tokens[pos + 1]>> \o r.words, pos |-> r.pos]
    ELSE [words |-> <<>>, pos |-> pos]

RECURSIVE CI_parse_or_expr(_, _, _)
RECURSIVE CI_or_loop(_, _, _)
RECURSIVE CI_parse_and_expr(_, _, _)
RECURSIVE CI_and_loop(_, _, _)
RECURSIVE CI_parse_not_expr(_, _, _)
RECURSIVE CI_parse_primary(_, _, _)

\* one turn of the `while ... == "or"` loop, `right` being the parsed operand
CI_or_step(self, tokens, acc, right) ==
    IF ~right.ok THEN right
    ELSE CI_or_loop(self, tokens, Ok(acc.val \cup right.val, right.pos))

CI_or_loop(self, tokens, acc) ==
    IF acc.pos < Len(tokens) /\ tokens[acc.pos + 1] = "or"
    THEN CI_or_step(self, tokens, acc, CI_parse_and_expr(self, tokens, acc.pos + 1))
    ELSE acc

\* the `?` on the first operand, then the loop
CI_or_first(self, tokens, result) ==
    IF ~result.ok THEN result ELSE CI_or_loop(self, tokens, result)

CI_parse_or_expr(self, tokens, pos) ==
    CI_or_first(self, tokens, CI_parse_and_expr(self, tokens, pos))

\* one turn of the `while ... == "and"` loop, `right` being the parsed operand
CI_and_step(self, tokens, acc, right) ==
    IF ~right.ok THEN right
    ELSE CI_and_loop(self, tokens, Ok(acc.val \cap right.val, right.pos))

CI_and_loop(self, tokens, acc) ==
    IF acc.pos < Len(tokens) /\ tokens[acc.pos + 1] = "and"
    THEN CI_and_step(self, tokens, acc, CI_parse_not_expr(self, tokens, acc.pos + 1))
    ELSE acc

\* the `?` on the first operand, then the loop
CI_and_first(self, tokens, result) ==
    IF ~result.ok THEN result ELSE CI_and_loop(self, tokens, result)

CI_parse_and_expr(self, tokens, pos) ==
    CI_and_first(self, tokens, CI_parse_not_expr(self, tokens, pos))

\* all_docs.difference(&result) of the `not` branch, `result` being the operand
CI_not_result(self, result) ==
    IF ~result.ok THEN result
    ELSE Ok(Range(self.documents) \ result.val, result.pos)

CI_parse_not_expr(self, tokens, pos) ==
    IF pos < Len(tokens) /\ tokens[pos + 1] = "not"
    THEN CI_not_result(self, CI_parse_primary(self, tokens, pos + 1))
    ELSE CI_parse_primary(self, tokens, pos)

\* the "(" branch of parse_primary after the inner expression was parsed
CI_primary_paren(tokens, result) ==
    IF ~result.ok THEN result
    ELSE IF result.pos >= Len(tokens) \/ tokens[result.pos + 1] # ")"
    THEN Err("Missing closing parenthesis", result.pos)
    ELSE Ok(result.val, result.pos + 1)

\* the quote branch of parse_primary after the phrase words were collected
CI_primary_quote(self, tokens, r) ==
    IF r.pos >= Len(tokens) THEN Err("Missing closing quote", r.pos)
    ELSE CI_search_phrase(self, JoinWith(r.words, " "), r.pos + 1)

\* the near/ branch of parse_primary after its words were collected
CI_primary_near_words(self, tokens, distance, r) ==
    IF r.pos >= Len(tokens)
    THEN Err("Missing closing parenthesis for near operator", r.pos)
    ELSE IF Len(r.words) < 2
    THEN Err("Near operator requires at least two words", r.pos + 1)
    ELSE CI_search_proximity(self, r.words, distance, r.pos + 1)

\* the near/ branch of parse_primary after the distance was parsed
CI_primary_near(self, tokens, pos, distance_str, distance) ==
    IF distance = <<>>
    THEN Err("Invalid distance in near operator: " \o distance_str, pos)
    ELSE IF pos + 1 >= Len(tokens) \/ tokens[pos + 2] # "("
    THEN Err("Expected '(' after near operator", pos + 1)
    ELSE CI_primary_near_words(self, tokens, distance[1],
             CollectUntil(tokens, pos + 2, ")"))

CI_parse_primary(self, tokens, pos) ==
    IF pos >= Len(tokens) THEN Err("Unexpected end of query", pos)
    ELSE IF tokens[pos + 1] = "("
    THEN CI_primary_paren(tokens, CI_parse_or_expr(self, tokens, pos + 1))
    ELSE IF tokens[pos + 1] = "\""
    THEN CI_primary_quote(self, tokens, CollectUntil(tokens, pos + 1, "\""))
    ELSE IF starts_with(tokens[pos + 1], "near/")
    THEN CI_primary_near(self, tokens, pos,
             SubSeq(tokens[pos + 1], 6, Len(tokens[pos + 1])),
             parse_usize(SubSeq(tokens[pos + 1], 6, Len(tokens[pos + 1]))))
    ELSE CI_search_term(self, tokens[pos + 1], pos + 1)

\* impl QueryParser for CoordinateIndex: search
CI_search(self, query) ==
    CI_parse_or_expr(self, tokenize(to_lowercase(query)), 0)

---------------------------------------------------------------------------
(* bigram_index.rs: BigramIndex                                            *)

\* words.windows(2) formatted as "{} {}"
Bigrams(words) == {words[i] \o " " \o words[i + 1] : i \in 1..(Len(words) - 1)}

\* BigramIndex::from_dictionary_with_parser: posting lists sorted and deduplicated
BigramIndex_from_dictionary_with_parser(dictionary, file_parser) ==
    LET documents == DictDocuments(dictionary)
        bigrams == UNION {Bigrams(file_parser[d]) : d \in documents}
    IN  [index |-> [b \in bigrams |->
                       SortedSeq({d \in documents : b \in Bigrams(file_parser[d])})],
         documents |-> SortedSeq(documents)]

BI_search_term(self, term, pos) ==
    Err("Bigram index doesn't support single term search: '" \o term \o "'", pos)

RECURSIVE bigram_windows_loop(_, _, _, _)
\* the `for window in words.windows(2)` loop of search_phrase from window i;
\* result is <<set>> (Some) or <<>> (None); the value is what search_phrase returns
bigram_windows_loop(self, words, i, result) ==
    IF i >= Len(words)
    THEN IF result = <<>> THEN {} ELSE result[1]
    ELSE LET bigram == to_lowercase(words[i]) \o " " \o to_lowercase(words[i + 1])
         IN  IF bigram \in DOMAIN self.index
             THEN LET bigram_docs == Range(self.index[bigram])
                  IN  bigram_windows_loop(self, words, i + 1,
                          IF result = <<>> THEN <<bigram_docs>>
                          ELSE <<result[1] \cap bigram_docs>>)
             ELSE {}

\* BigramIndex::search_phrase
BI_search_phrase(self, phrase, pos) ==
    LET words == split_whitespace(phrase)
    IN  IF Len(words) < 2 THEN Err("Phrase must contain at least two words", pos)
        ELSE Ok(bigram_windows_loop(self, words, 1, <<>>), pos)

RECURSIVE BI_parse_or_expr(_, _, _)
RECURSIVE BI_or_loop(_, _, _)
RECURSIVE BI_parse_and_expr(_, _, _)
RECURSIVE BI_and_loop(_, _, _)
RECURSIVE BI_parse_not_expr(_, _, _)
RECURSIVE BI_parse_primary(_, _, _)

\* one turn of the `while ... == "or"` loop, `right` being the parsed operand
BI_or_step(self, tokens, acc, right) ==
    IF ~right.ok THEN right
    ELSE BI_or_loop(self, tokens, Ok(acc.val \cup right.val, right.pos))

\* the `while ... tokens[*pos] == "or"` loop of parse_or_expr; acc is Ok(result)
BI_or_loop(self, tokens, acc) ==
    IF acc.pos < Len(tokens) /\ tokens[acc.pos + 1] = "or"
    THEN BI_or_step(self, tokens, acc, BI_parse_and_expr(self, tokens, acc.pos + 1))
    ELSE acc

\* the `?` on the first operand, then the loop
BI_or_first(self, tokens, result) ==
    IF ~result.ok THEN result ELSE BI_or_loop(self, tokens, result)

BI_parse_or_expr(self, tokens, pos) ==
    BI_or_first(self, tokens, BI_parse_and_expr(self, tokens, pos))

\* one turn of the `while ... == "and"` loop, `right` being the parsed operand
BI_and_step(self, tokens, acc, right) ==
    IF ~right.ok THEN right
    ELSE BI_and_loop(self, tokens, Ok(acc.val \cap right.val, right.pos))

BI_and_loop(self, tokens, acc) ==
    IF acc.pos < Len(tokens) /\ tokens[acc.pos + 1] = "and"
    THEN BI_and_step(self, tokens, acc, BI_parse_not_expr(self, tokens, acc.pos + 1))
    ELSE acc

\* the `?` on the first operand, then the loop
BI_and_first(self, tokens, result) ==
    IF ~result.ok THEN result ELSE BI_and_loop(self, tokens, result)

BI_parse_and_expr(self, tokens, pos) ==
    BI_and_first(self, tokens, BI_parse_not_expr(self, tokens, pos))

\* the `not` branch of parse_not_expr, `result` being the parsed operand
BI_not_result(self, result) ==
    IF ~result.ok THEN result
    ELSE Ok(Range(self.documents) \ result.val, result.pos)

BI_parse_not_expr(self, tokens, pos) ==
    IF pos < Len(tokens) /\ tokens[pos + 1] = "not"
    THEN BI_not_result(self, BI_parse_primary(self, tokens, pos + 1))
    ELSE BI_parse_primary(self, tokens, pos)

\* the "(" branch of parse_primary after the inner expression was parsed
BI_primary_paren(tokens, result) ==
    IF ~result.ok THEN result
    ELSE IF result.pos >= Len(tokens) \/ tokens[result.pos + 1] # ")"
    THEN Err("Missing closing parenthesis", result.pos)
    ELSE Ok(result.val, result.pos + 1)

\* the quote branch of parse_primary after the phrase words were collected
BI_primary_quote(self, tokens, r) ==
    IF r.pos >= Len(tokens) THEN Err("Missing closing quote", r.pos)
    ELSE IF Len(r.words) < 2
    THEN Err("Phrase must contain at least two words", r.pos + 1)
    ELSE BI_search_phrase(self, JoinWith(r.words, " "), r.pos + 1)

BI_parse_primary(self, tokens, pos) ==
    IF pos >= Len(tokens) THEN Err("Unexpected end of query", pos)
    ELSE IF tokens[pos + 1] = "("
    THEN BI_primary_paren(tokens, BI_parse_or_expr(self, tokens, pos + 1))
    ELSE IF tokens[pos + 1] = "\""
    THEN BI_primary_quote(self, tokens, CollectUntil(tokens, pos + 1, "\""))
    ELSE BI_search_term(self, tokens[pos + 1], pos + 1)

\* impl QueryParser for BigramIndex: search
BI_search(self, query) ==
    BI_parse_or_expr(self, tokenize(to_lowercase(query)), 0)

---------------------------------------------------------------------------
(* The build and the search operations as a state machine                  *)

\* Bounds of the model
MaxDocs == 2            \* documents in a corpus
MaxBoolDocLen == 2      \* tokens per document, Boolean-query specification
MaxOps == 2             \* operators in a generated Boolean query
MaxRawTokens == 3       \* tokens in an arbitrary (possibly malformed) query

\* lib.rs: files smaller than this many bytes are not indexed
MinFileSize == 150000

Vocabulary == {"alpha", "beta"}
UnknownTerm == "zeta"

Texts(n) == UNION {[1..k -> Vocabulary] : k \in 0..n}

DocName(i) == "d" \o Chr(48 + i)

\* the parser callback of the index builders: the words of the named file
FileParser(files) ==
    [name \in {files[i].name : i \in 1..Len(files)} |->
        files[CHOOSE i \in 1..Len(files) : files[i].name = name].words]

BuildAll(files) ==
    LET dictionary == build_dictionary(files)
    IN  [dictionary |-> dictionary,
         matrix |-> IncidenceMatrix_from_dictionary(dictionary),
         compressed |-> CompressedInvertedIndex_from_dictionary(dictionary),
         coordinate |-> CoordinateIndex_from_dictionary_with_parser(
                            dictionary, FileParser(files)),
         bigram |-> BigramIndex_from_dictionary_with_parser(
                            dictionary, FileParser(files))]

NoOp == [kind |-> "none", query |-> "", expr |-> <<>>, words |-> <<>>, distance |-> 0,
         numbers |-> <<>>]
NoRes == [cii |-> Err("", 0), im |-> Err("", 0), im_docs |-> <<>>,
          ci |-> Err("", 0), bi |-> Err("", 0),
          bytes |-> <<>>, decoded |-> <<>>, docs |-> <<>>]

\* no SPIMI indexer, no compressed dictionary
NoSpimi == [state |-> "none"]
NoCdict == [state |-> "none"]
\* no wildcard index built, no dictionary under construction
NoWild == [state |-> "none"]
NoDict == [state |-> "none"]

\* no file read, nothing built, no search run
SearchInit ==
    /\ corpus = <<>>
    /\ built = FALSE
    /\ idx = BuildAll(<<>>)
    /\ op = NoOp
    /\ res = NoRes
    /\ wild = NoWild
    /\ dict = NoDict

Init ==
    /\ SearchInit
    /\ spimi = NoSpimi
    /\ cdict = NoCdict

\* one more accepted file is parsed and queued for the build
AddFile(words) ==
    /\ ~built
    /\ Len(corpus) < MaxDocs
    /\ corpus' = Append(corpus, [name |-> DocName(Len(corpus) + 1),
                                 words |-> words, size |-> MinFileSize])
    /\ UNCHANGED <<built, idx, op, res, spimi, cdict, wild, dict>>

\* build_dictionary and the index constructors
Build ==
    /\ ~built
    /\ built' = TRUE
    /\ idx' = BuildAll(corpus)
    /\ UNCHANGED <<corpus, op, res, spimi, cdict, wild, dict>>

\* QueryParser::search of every evaluator on one query string
SearchAll(query) ==
    LET im == IM_search(idx.matrix, query)
    IN  [cii |-> CII_search(idx.compressed, query),
         im |-> im,
         im_docs |-> IF im.ok THEN get_matching_documents(idx.matrix, im.val) ELSE <<>>,
         ci |-> CI_search(idx.coordinate, query),
         bi |-> BI_search(idx.bigram, query)]

---------------------------------------------------------------------------
(* Boolean queries: generated expressions and their set-algebra value      *)

Keywords == {"and", "or", "not"}

RECURSIVE Exprs(_)
\* The Boolean expressions with exactly n operators, in prefix notation:
\* <<"and", "alpha", "not", "beta">> is  alpha and (not beta)
Exprs(n) ==
    IF n = 0 THEN {<<t>> : t \in Vocabulary}
    ELSE {<<"not">> \o e : e \in Exprs(n - 1)}
         \cup UNION {{<<o>> \o a \o b :
                          a \in Exprs(i), b \in Exprs(n - 1 - i), o \in {"and", "or"}} :
                     i \in 0..(n - 1)}

AllExprs == UNION {Exprs(n) : n \in 0..MaxOps}

\* The documents of the corpus that contain the term, read off the corpus itself
TermDocs(files, t) == {files[i].name : i \in {j \in 1..Len(files) : t \in Range(files[j].words)}}

\* The documents known to the indices: those that contributed at least one term
KnownDocs(files) == {files[i].name : i \in {j \in 1..Len(files) : files[j].words # <<>>}}

KnownTerms(files) == UNION {Range(files[i].words) : i \in 1..Len(files)}

RECURSIVE EvalExpr(_, _, _)
\* The set-algebra value of the prefix expression starting at e[i], and the
\* index after it: 'or' union, 'and' intersection, 'not' complement
EvalExpr(files, e, i) ==
    IF e[i] = "not"
    THEN LET a == EvalExpr(files, e, i + 1)
         IN  [val |-> KnownDocs(files) \ a.val, next |-> a.next]
    ELSE IF e[i] \in {"and", "or"}
    THEN LET a == EvalExpr(files, e, i + 1)
             b == EvalExpr(files, e, a.next)
         IN  [val |-> IF e[i] = "and" THEN a.val \cap b.val ELSE a.val \cup b.val,
              next |-> b.next]
    ELSE [val |-> TermDocs(files, e[i]), next |-> i + 1]

Paren(r, minLevel) == IF r.level < minLevel THEN "(" \o r.str \o ")" ELSE r.str

RECURSIVE RenderExpr(_, _)
\* The query text of the prefix expression at e[i] under the grammar
\*   or_expr := and_expr ('or' and_expr)*,  and_expr := not_expr ('and' not_expr)*,
\*   not_expr := 'not' primary | primary,   primary := '(' or_expr ')' | term
\* with parentheses only where the grammar needs them; level is 0 for an
\* or_expr, 1 for an and_expr, 2 for a not_expr, 3 for a primary
RenderExpr(e, i) ==
    IF e[i] = "not"
    THEN LET a == RenderExpr(e, i + 1)
         IN  [str |-> "not " \o Paren(a, 3), level |-> 2, next |-> a.next]
    ELSE IF e[i] = "and"
    THEN LET a == RenderExpr(e, i + 1)
             b == RenderExpr(e, a.next)
         IN  [str |-> Paren(a, 1) \o " and " \o Paren(b, 2), level |-> 1, next |-> b.next]
    ELSE IF e[i] = "or"
    THEN LET a == RenderExpr(e, i + 1)
             b == RenderExpr(e, a.next)
         IN  [str |-> Paren(a, 0) \o " or " \o Paren(b, 1), level |-> 0, next |-> b.next]
    ELSE [str |-> e[i], level |-> 3, next |-> i + 1]

RECURSIVE to_uppercase(_)
to_uppercase(s) ==
    IF Len(s) = 0 THEN ""
    ELSE LET c == CharAt(s, 1)
             uc == IF Ord(c) >= 97 /\ Ord(c) <= 122 THEN Chr(Ord(c) - 32) ELSE c
         IN  uc \o to_uppercase(SubSeq(s, 2, Len(s)))

\* search(query) on every evaluator, for a generated Boolean query typed in
\* lower case or in upper case; a run of the program evaluates one query
SearchBoolean(e, upper) ==
    /\ built
    /\ op.kind = "none"
    /\ LET text == RenderExpr(e, 1).str
           query == IF upper THEN to_uppercase(text) ELSE text
       IN  /\ op' = [NoOp EXCEPT !.kind = "bool", !.query = query, !.expr = e]
           /\ res' = SearchAll(query)
    /\ UNCHANGED <<corpus, built, idx, spimi, cdict, wild, dict>>

RawTokens == {"alpha", UnknownTerm, "and", "or", "not", "(", ")"}

RawQueries == UNION {[1..k -> RawTokens] : k \in 0..MaxRawTokens}

\* search(query) on every evaluator, for an arbitrary token sequence
SearchTokens(ts) ==
    /\ built
    /\ op.kind = "none"
    /\ LET query == JoinWith(ts, " ")
       IN  /\ op' = [NoOp EXCEPT !.kind = "raw", !.query = query, !.words = ts]
           /\ res' = SearchAll(query)
    /\ UNCHANGED <<corpus, built, idx, spimi, cdict, wild, dict>>

Next ==
    \/ \E words \in Texts(MaxBoolDocLen) : AddFile(words)
    \/ Build
    \/ \E e \in AllExprs, upper \in BOOLEAN : SearchBoolean(e, upper)
    \/ \E ts \in RawQueries : SearchTokens(ts)

Spec == Init /\ [][Next]_vars

---------------------------------------------------------------------------
(* Boolean evaluation                                                      *)

\* C1: for every built index and every query made of known terms, 'and',
\* 'or', 'not' and parentheses, search succeeds with the set-algebra value of
\* the query as the grammar parses it: 'or' union (loosest), 'and'
\* intersection, 'not' complement of the following primary against the known
\* documents.  Stated for the term-level evaluators (compressed inverted
\* index, incidence matrix read through get_matching_documents, coordinate
\* index).
C1_SearchIsSetAlgebra ==
    (op.kind = "bool" /\ (Range(op.expr) \ Keywords) \subseteq KnownTerms(corpus)) =>
        LET v == EvalExpr(corpus, op.expr, 1).val
        IN  /\ res.cii.ok /\ res.cii.val = v
            /\ res.im.ok /\ Range(res.im_docs) = v
            /\ res.ci.ok /\ res.ci.val = v

\* 'not' over a parenthesised 'and' evaluated on a two-document corpus with
\* a non-trivial answer
C1_Witness ==
    /\ op.kind = "bool"
    /\ op.query = "not (alpha and beta)"
    /\ Len(corpus) = 2
    /\ KnownTerms(corpus) = {"alpha", "beta"}
    /\ res.cii.ok
    /\ res.cii.val = {"d2"}

\* C2: for every dictionary and every query of terms, 'and', 'or', 'not' and
\* parentheses (well-formed or not, known terms or not), IncidenceMatrix
\* search followed by get_matching_documents and CompressedInvertedIndex
\* search either both fail or both succeed with the same document names.
C2_MatrixEqualsInverted ==
    (op.kind \in {"bool", "raw"}) =>
        /\ res.im.ok = res.cii.ok
        /\ res.im.ok => Range(res.im_docs) = res.cii.val

\* both evaluators succeed with a non-empty proper subset of the documents
C2_Witness ==
    /\ op.kind = "bool"
    /\ op.query = "alpha and not beta"
    /\ Len(corpus) = 2
    /\ res.im.ok /\ res.cii.ok
    /\ Range(res.im_docs) = {"d1"}

---------------------------------------------------------------------------
(* Phrase and proximity search over the positional and the bigram index    *)

MaxDocLen == 4          \* tokens per document, phrase specification
MaxPhraseLen == 3       \* words of a phrase or of a proximity word list
MaxDistance == 2        \* largest distance of a proximity search

WordLists(lo, hi) == UNION {[1..k -> Vocabulary] : k \in lo..hi}

\* CoordinateIndex::search_phrase and BigramIndex::search_phrase on one phrase
SearchPhrase(words) ==
    /\ built
    /\ op.kind = "none"
    /\ LET phrase == JoinWith(words, " ")
       IN  /\ op' = [NoOp EXCEPT !.kind = "phrase", !.query = phrase, !.words = words]
           /\ res' = [NoRes EXCEPT !.ci = CI_search_phrase(idx.coordinate, phrase, 0),
                                   !.bi = BI_search_phrase(idx.bigram, phrase, 0)]
    /\ UNCHANGED <<corpus, built, idx, spimi, cdict, wild, dict>>

\* search(query) of the positional and the bigram index for the phrase typed
\* between double quotes
SearchQuoted(words) ==
    /\ built
    /\ op.kind = "none"
    /\ LET query == "\"" \o JoinWith(words, " ") \o "\""
       IN  /\ op' = [NoOp EXCEPT !.kind = "quoted", !.query = query, !.words = words]
           /\ res' = [NoRes EXCEPT !.ci = CI_search(idx.coordinate, query),
                                   !.bi = BI_search(idx.bigram, query)]
    /\ UNCHANGED <<corpus, built, idx, spimi, cdict, wild, dict>>

\* CoordinateIndex::search_proximity on a word list and a distance
SearchProximity(words, max_distance) ==
    /\ built
    /\ op.kind = "none"
    /\ op' = [NoOp EXCEPT !.kind = "near", !.words = words, !.distance = max_distance]
    /\ res' = [NoRes EXCEPT
                  !.ci = CI_search_proximity(idx.coordinate, words, max_distance, 0)]
    /\ UNCHANGED <<corpus, built, idx, spimi, cdict, wild, dict>>

PhraseNext ==
    \/ \E words \in Texts(MaxDocLen) : AddFile(words)
    \/ Build
    \/ \E words \in WordLists(0, MaxPhraseLen) : SearchPhrase(words)
    \/ \E words \in WordLists(2, MaxPhraseLen) : SearchQuoted(words)
    \/ \E words \in WordLists(2, MaxPhraseLen), d \in 0..MaxDistance :
           SearchProximity(words, d)

PhraseSpec == Init /\ [][PhraseNext]_vars

\* The documents in which the words occur consecutively, read off the corpus:
\* some p holds words[1] and p + (j - 1) holds words[j] for every j
PhraseDocs(files, words) ==
    {files[i].name : i \in {n \in 1..Len(files) :
        \E p \in 1..Len(files[n].words) :
            \A j \in 1..Len(words) :
                /\ p + (j - 1) <= Len(files[n].words)
                /\ files[n].words[p + (j - 1)] = words[j]}}

\* The documents in which some occurrence p of words[1] has every other word
\* within max_distance positions
ProximityDocs(files, words, max_distance) ==
    {files[i].name : i \in {n \in 1..Len(files) :
        \E p \in 1..Len(files[n].words) :
            /\ files[n].words[p] = words[1]
            /\ \A j \in 2..Len(words) :
                   \E q \in 1..Len(files[n].words) :
                       /\ files[n].words[q] = words[j]
                       /\ q - p <= max_distance
                       /\ p - q <= max_distance}}

\* C4: for every phrase of k >= 2 words the positional phrase result is a
\* subset of the bigram phrase result, which is a subset of the intersection
\* of the document sets of the phrase's words.
C4_PhraseSubsets ==
    (op.kind = "phrase" /\ Len(op.words) >= 2) =>
        /\ res.ci.val \subseteq res.bi.val
        /\ \A j \in 1..Len(op.words) : res.bi.val \subseteq TermDocs(corpus, op.words[j])

\* C5: for every phrase t1 ... tk, k >= 2, CoordinateIndex.search_phrase
\* returns exactly the documents with a position p of t1 such that p + (j-1)
\* is a position of tj for every j in 2..k.
C5_PhraseExact ==
    (op.kind = "phrase" /\ Len(op.words) >= 2) =>
        /\ res.ci.ok
        /\ res.ci.val = PhraseDocs(corpus, op.words)

\* C6: a query "w1 ... wk" in double quotes (k >= 2) makes
\* CoordinateIndex.search and BigramIndex.search return their search_phrase
\* result for w1 ... wk.
C6_QuotedIsPhrase ==
    (op.kind = "quoted") =>
        LET phrase == JoinWith(op.words, " ")
            ci == CI_search_phrase(idx.coordinate, phrase, 0)
            bi == BI_search_phrase(idx.bigram, phrase, 0)
        IN  /\ res.ci.ok = ci.ok /\ res.ci.val = ci.val
            /\ res.bi.ok = bi.ok /\ res.bi.val = bi.val

\* C7: for every word list t1 ... tk (k >= 2) and distance d,
\* search_proximity succeeds with exactly the documents in which some position
\* p of t1 has every other word within distance d; a word absent from the
\* index gives the empty set, not an error.
C7_ProximityExact ==
    (op.kind = "near") =>
        /\ res.ci.ok
        /\ res.ci.val = ProximityDocs(corpus, op.words, op.distance)

\* a three-word list matched in one document of two by a word before the
\* anchor, at distance 2 but not 1
C7_Witness ==
    /\ op.kind = "near"
    /\ op.words = <<"beta", "alpha", "beta">>
    /\ op.distance = 2
    /\ Len(corpus) = 2
    /\ corpus[1].words = <<"alpha", "beta", "beta", "beta">>
    /\ corpus[2].words = <<"alpha", "alpha">>
    /\ res.ci.ok
    /\ res.ci.val = {"d1"}

\* a proximity search for a word no document contains
C7_WitnessAbsentWord ==
    /\ op.kind = "near"
    /\ op.words = <<"alpha", "beta">>
    /\ KnownTerms(corpus) = {"alpha"}
    /\ res.ci.ok
    /\ res.ci.val = {}

---------------------------------------------------------------------------
(* The posting-list codec                                                  *)

MaxListLen == 3         \* ids in a list given to the codec

\* ids at the edges of the 1-, 2-, 3-, 4- and 5-byte encodings
IdValues == {0, 1, 127, 128, 16384, 2097152, 2147483647}

\* the lists of distinct ids, in every order
IdLists == UNION {{l \in [1..k -> IdValues] : \A i, j \in 1..k : i # j => l[i] # l[j]} :
                  k \in 0..MaxListLen}

\* vb_encoding::encode_delta_vb on a list of ids
EncodeList(l) ==
    /\ op.kind = "none"
    /\ op' = [NoOp EXCEPT !.kind = "encode", !.numbers = l]
    /\ res' = [NoRes EXCEPT !.bytes = encode_delta_vb(l)]
    /\ UNCHANGED <<corpus, built, idx, spimi, cdict, wild, dict>>

\* vb_encoding::decode_delta_vb on the bytes encode_delta_vb returned
DecodeList ==
    /\ op.kind = "encode"
    /\ op' = [op EXCEPT !.kind = "decode"]
    /\ res' = [res EXCEPT !.decoded = decode_delta_vb(res.bytes)]
    /\ UNCHANGED <<corpus, built, idx, spimi, cdict, wild, dict>>

\* CompressedInvertedIndex::get_documents_for_term, and the decoding of the
\* bytes the index stores for the term
GetDocuments(term) ==
    /\ built
    /\ op.kind = "none"
    /\ op' = [NoOp EXCEPT !.kind = "postings", !.query = term]
    /\ res' = [NoRes EXCEPT
                  !.docs = get_documents_for_term(idx.compressed, term),
                  !.decoded = IF term \in DOMAIN idx.compressed.compressed_index
                              THEN decode_delta_vb(idx.compressed.compressed_index[term])
                              ELSE <<>>]
    /\ UNCHANGED <<corpus, built, idx, spimi, cdict, wild, dict>>

CodecNext ==
    \/ \E words \in Texts(MaxBoolDocLen) : AddFile(words)
    \/ Build
    \/ \E l \in IdLists : EncodeList(l)
    \/ DecodeList
    \/ \E term \in Vocabulary \cup {UnknownTerm} : GetDocuments(term)

CodecSpec == Init /\ [][CodecNext]_vars

IsAscending(s) == \A i \in 1..(Len(s) - 1) : s[i] < s[i + 1]

\* C3: decode_delta_vb(encode_delta_vb(L)) is L sorted ascending for every
\* list L of distinct ids; and for every term t of a built compressed index
\* the stored bytes decode to the ascending list of the ids of t's documents,
\* so that get_documents_for_term(t) is exactly the documents of t.
C3_CodecRoundTrip ==
    /\ (op.kind = "decode") =>
           /\ IsAscending(res.decoded)
           /\ Len(res.decoded) = Len(op.numbers)
           /\ Range(res.decoded) = Range(op.numbers)
    /\ (op.kind = "postings" /\ op.query \in KnownTerms(corpus)) =>
           /\ IsAscending(res.decoded)
           /\ \A i \in 1..Len(res.decoded) :
                  res.decoded[i] < Len(idx.compressed.doc_id_to_name)
           /\ {idx.compressed.doc_id_to_name[res.decoded[i] + 1] :
                   i \in 1..Len(res.decoded)} = TermDocs(corpus, op.query)
           /\ Len(res.docs) = 1
           /\ Len(res.docs[1]) = Cardinality(TermDocs(corpus, op.query))
           /\ Range(res.docs[1]) = TermDocs(corpus, op.query)

\* an unsorted list with one-, two- and three-byte gaps decoded back
C3_Witness ==
    /\ op.kind = "decode"
    /\ op.numbers = <<16384, 0, 128>>
    /\ res.bytes = <<128, 0, 129, 0, 255>>
    /\ res.decoded = <<0, 128, 16384>>

RECURSIVE BitLength(_)
\* the number of binary digits of g: ceil(log2(g + 1))
BitLength(g) == IF g = 0 THEN 0 ELSE 1 + BitLength(g \div 2)

\* ceil(log2(g + 1) / 7)
SevenBitGroups(g) == (BitLength(g) + 6) \div 7

RECURSIVE AscendingIds(_)
\* the ids of a set in ascending order
AscendingIds(S) ==
    IF S = {} THEN <<>>
    ELSE LET m == CHOOSE x \in S : \A y \in S : x <= y
         IN  <<m>> \o AscendingIds(S \ {m})

\* the gaps of an ascending list, the first gap being the first id
Gaps(ids) == [i \in 1..Len(ids) |-> IF i = 1 THEN ids[1] ELSE ids[i] - ids[i - 1]]

RECURSIVE SumGroups(_)
SumGroups(gaps) ==
    IF gaps = <<>> THEN 0 ELSE SevenBitGroups(gaps[1]) + SumGroups(Tail(gaps))

RECURSIVE SumBytes(_)
\* every gap takes at least one byte
SumBytes(gaps) ==
    IF gaps = <<>> THEN 0
    ELSE (IF gaps[1] = 0 THEN 1 ELSE SevenBitGroups(gaps[1])) + SumBytes(Tail(gaps))

\* C23: for a list of L distinct ids the bytes of encode_delta_vb number the
\* sum over the gaps g of ceil(log2(g + 1) / 7), and at most 4 * L.
C23_EncodedSize ==
    (op.kind = "encode") =>
        /\ Len(res.bytes) = SumGroups(Gaps(AscendingIds(Range(op.numbers))))
        /\ Len(res.bytes) <= 4 * Len(op.numbers)

\* C23 as amended: a gap g takes max(1, ceil(log2(g + 1) / 7)) bytes, one
\* byte for the gap 0, and the bytes number at most 5 * L.
C23_EncodedSizeAmended ==
    (op.kind = "encode") =>
        /\ Len(res.bytes) = SumBytes(Gaps(AscendingIds(Range(op.numbers))))
        /\ Len(res.bytes) <= 5 * Len(op.numbers)

\* the first id is 0 and takes one byte, the gap of 128 two, the gap up to
\* 2^31 - 1 five
C23_Witness ==
    /\ op.kind = "encode"
    /\ op.numbers = <<2147483647, 0, 128>>
    /\ Len(res.bytes) = 8

---------------------------------------------------------------------------
(* spimi.rs: SPIMIIndexer                                                  *)

\* spimi.rs: memory_limit_mb * 1024 * 1024
BytesPerMb == 1048576

\* spimi.rs: the estimate added to word.len() + doc_id.len() for one posting
PostingOverhead == 32

\* char::is_alphanumeric, on ASCII
is_alphanumeric(c) ==
    LET n == Ord(c)
    IN  (n >= 48 /\ n <= 57) \/ (n >= 65 /\ n <= 90) \/ (n >= 97 /\ n <= 122)

RECURSIVE filter_alphanumeric(_)
\* word.chars().filter(|c| c.is_alphanumeric()).collect::<String>()
filter_alphanumeric(word) ==
    IF Len(word) = 0 THEN ""
    ELSE (IF is_alphanumeric(CharAt(word, 1)) THEN CharAt(word, 1) ELSE "")
         \o filter_alphanumeric(SubSeq(word, 2, Len(word)))

RECURSIVE SPIMI_tokenize_words(_)
SPIMI_tokenize_words(words) ==
    IF words = <<>> THEN <<>>
    ELSE LET word == to_lowercase(filter_alphanumeric(words[1]))
         IN  (IF Len(word) > 2 THEN <<word>> ELSE <<>>)
             \o SPIMI_tokenize_words(Tail(words))

\* SPIMIIndexer::tokenize
SPIMI_tokenize(text) == SPIMI_tokenize_words(split_whitespace(text))

\* Dictionary::new() as spimi.rs uses it: the terms keyed by the term string,
\* the aggregates zero
SPIMI_Dictionary_new ==
    [terms |-> EmptyMap, total_words |-> 0, total_documents |-> 0,
     collection_size_bytes |-> 0]

\* SPIMIIndexer::new
SPIMIIndexer_new(memory_limit_mb) ==
    [state |-> "open",
     memory_limit |-> memory_limit_mb * BytesPerMb,
     current_memory_usage |-> 0,
     current_index |-> EmptyMap,
     block_count |-> 0,
     disk |-> <<>>,          \* block_<i>.txt is disk[i + 1], a sequence of lines
     written |-> <<>>,       \* history: per block, the list written for each term
     input |-> <<>>,         \* history: the <<term, doc_id>> stream indexed so far
     documents |-> 0,        \* history: the number of add_document calls
     dictionary |-> SPIMI_Dictionary_new]

\* SPIMIIndexer::write_block_to_disk
write_block_to_disk(self) ==
    LET terms == SortedSeq(DOMAIN self.current_index)
        unique_docs(term) == SortedSeq(Range(self.current_index[term]))
        lines == [i \in 1..Len(terms) |->
                     terms[i] \o ":" \o JoinWith(unique_docs(terms[i]), ",")]
    IN  [self EXCEPT !.disk = Append(@, lines),
                     !.written = Append(@, [t \in DOMAIN self.current_index |->
                                               unique_docs(t)]),
                     !.block_count = @ + 1]

\* reset_current_block that keeps the memory estimate
reset_current_block_keep_usage(self) ==
    [self EXCEPT !.current_index = EmptyMap]

\* SPIMIIndexer::reset_current_block
reset_current_block(self) ==
    [self EXCEPT !.current_index = EmptyMap, !.current_memory_usage = 0]

RECURSIVE add_document_loop(_, _, _)
\* the `for word in words` loop of add_document
add_document_loop(self, doc_id, words) ==
    IF words = <<>> THEN self
    ELSE LET word == words[1]
             term_size == Len(word) + Len(doc_id) + PostingOverhead
             s1 == IF self.current_memory_usage + term_size > self.memory_limit
                   THEN reset_current_block(write_block_to_disk(self))
                   ELSE self
             s2 == [s1 EXCEPT
                       !.current_index =
                           IF word \in DOMAIN @
                           THEN [@ EXCEPT ![word] = Append(@, doc_id)]
                           ELSE @ @@ (word :> <<doc_id>>),
                       !.current_memory_usage = @ + term_size,
                       !.input = Append(@, <<word, doc_id>>)]
         IN  add_document_loop(s2, doc_id, Tail(words))

\* SPIMIIndexer::add_document
add_document(self, doc_id, text) ==
    add_document_loop([self EXCEPT !.documents = @ + 1], doc_id, SPIMI_tokenize(text))

RECURSIVE split_loop(_, _, _, _, _)
split_loop(s, sep, i, parts, current) ==
    IF i > Len(s) THEN Append(parts, current)
    ELSE IF CharAt(s, i) = sep
    THEN split_loop(s, sep, i + 1, Append(parts, current), "")
    ELSE split_loop(s, sep, i + 1, parts, current \o CharAt(s, i))

\* str::split(sep), all its items in order
split(s, sep) == split_loop(s, sep, 1, <<>>, "")

\* line.split(':').next() of merge_blocks
line_term(line) == split(line, ":")[1]

\* line.split(':').nth(1), split on ',' without the empty items
line_docs(line) ==
    LET parts == split(line, ":")
    IN  IF Len(parts) < 2 THEN <<>>
        ELSE SelectSeq(split(parts[2], ","), LAMBDA doc : doc # "")

RECURSIVE concat_docs(_, _, _)
\* the `for &block_idx in &min_indices` loop: the documents of the current
\* lines of the blocks from index i on that hold the minimal term
concat_docs(lines, term, i) ==
    IF i > Len(lines) THEN <<>>
    ELSE (IF lines[i] # <<>> /\ line_term(lines[i][1]) = term
          THEN line_docs(lines[i][1]) ELSE <<>>)
         \o concat_docs(lines, term, i + 1)

RECURSIVE merge_loop(_, _, _)
\* the `loop` of merge_blocks; next[i] is the index in disk[i] of the current
\* line of block i (beyond the end: None)
merge_loop(disk, next, dictionary) ==
    LET current_lines == [i \in 1..Len(disk) |->
                             IF next[i] <= Len(disk[i]) THEN <<disk[i][next[i]]>> ELSE <<>>]
        live == {i \in 1..Len(disk) : current_lines[i] # <<>>}
    IN  IF live = {} THEN dictionary
        ELSE LET terms == {line_term(current_lines[i][1]) : i \in live}
                 term == CHOOSE t \in terms : \A u \in terms : ~StrLess(u, t)
                 min_indices == {i \in live : line_term(current_lines[i][1]) = term}
                 all_docs == SortedSeq(Range(concat_docs(current_lines, term, 1)))
                 entry == [frequency |-> Len(all_docs), documents |-> all_docs]
             IN  merge_loop(disk,
                     [i \in 1..Len(disk) |-> IF i \in min_indices THEN next[i] + 1 ELSE next[i]],
                     [dictionary EXCEPT !.terms = (term :> entry) @@ @])

\* SPIMIIndexer::merge_blocks: the Dictionary, the block files removed
merge_blocks(self) ==
    [self EXCEPT !.dictionary = merge_loop(self.disk, [i \in 1..Len(self.disk) |-> 1],
                                           SPIMI_Dictionary_new),
                 !.disk = <<>>]

\* SPIMIIndexer::finalize
finalize(self) ==
    merge_blocks(IF DOMAIN self.current_index # {} THEN write_block_to_disk(self) ELSE self)

---------------------------------------------------------------------------
(* SPIMI indexing as a state machine                                       *)

MaxSpimiDocs == 2       \* add_document calls before finalize
MaxSpimiWords == 2      \* whitespace-separated words of a document text

\* memory budgets in MB: 0 forces a block per posting, 1 keeps one block
MemoryLimitsMb == {0, 1}

\* document identifiers as a corpus column can hold them
DocIds == {"d1", "d2", "d:3"}

\* raw words: a term, a capitalised term with punctuation, a word too short to index
RawWords == {"alpha", "Beta,", "of"}

SpimiTexts == {JoinWith(ws, " ") : ws \in UNION {[1..k -> RawWords] : k \in 0..MaxSpimiWords}}

SpimiInit ==
    /\ SearchInit
    /\ cdict = NoCdict
    /\ \E mb \in MemoryLimitsMb : spimi = SPIMIIndexer_new(mb)

\* add_document; the program adds its documents before it calls finalize
AddDocument(doc_id, text) ==
    /\ spimi.state = "open"
    /\ spimi.documents < MaxSpimiDocs
    /\ spimi' = add_document(spimi, doc_id, text)
    /\ UNCHANGED <<corpus, built, idx, op, res, cdict, wild, dict>>

\* finalize, the last call on the indexer
Finalize ==
    /\ spimi.state = "open"
    /\ spimi' = [finalize(spimi) EXCEPT !.state = "done"]
    /\ UNCHANGED <<corpus, built, idx, op, res, cdict, wild, dict>>

SpimiNext ==
    \/ \E doc_id \in DocIds, text \in SpimiTexts : AddDocument(doc_id, text)
    \/ Finalize

SpimiSpec == SpimiInit /\ [][SpimiNext]_vars

\* The in-memory dictionary over the same stream of <<term, doc_id>> postings
InMemory(input) == merge_terms(Dictionary_new, input)

\* C8: for every document sequence and every memory budget the Dictionary
\* finalize returns has the terms of the in-memory build over the same token
\* stream, and every term has the same set of documents.
C8_SpimiEqualsInMemory ==
    (spimi.state = "done") =>
        LET memory == InMemory(spimi.input)
        IN  /\ DOMAIN spimi.dictionary.terms = DictTerms(memory)
            /\ \A t \in DictTerms(memory) :
                   Range(spimi.dictionary.terms[t].documents) = DictDocs(memory, t)

\* the blocks that hold the term
BlocksOf(written, t) == {b \in 1..Len(written) : t \in DOMAIN written[b]}

\* C9: after the merge every term of one or more blocks has one TermEntry
\* whose document list is the ascending duplicate-free union of the lists
\* written for the term in all blocks, and whose frequency is its length.
C9_MergedPostings ==
    (spimi.state = "done") =>
        \A t \in UNION {DOMAIN spimi.written[b] : b \in 1..Len(spimi.written)} :
            /\ t \in DOMAIN spimi.dictionary.terms
            /\ spimi.dictionary.terms[t].documents =
                   SortedSeq(UNION {Range(spimi.written[b][t]) :
                                        b \in BlocksOf(spimi.written, t)})
            /\ spimi.dictionary.terms[t].frequency =
                   Len(spimi.dictionary.terms[t].documents)

RECURSIVE SumEntryFrequency(_, _)
\* the sum of the frequency fields of the entries of the terms in keys
SumEntryFrequency(terms, keys) ==
    IF keys = {} THEN 0
    ELSE LET k == CHOOSE x \in keys : TRUE
         IN  terms[k].frequency + SumEntryFrequency(terms, keys \ {k})

\* the documents that contributed a term to the dictionary
ContributingDocs(dictionary) ==
    UNION {Range(dictionary.terms[t].documents) : t \in DOMAIN dictionary.terms}

\* total_words is the sum of the frequencies, total_documents the number of
\* contributing documents
AggregatesHold(dictionary) ==
    /\ dictionary.total_words
           = SumEntryFrequency(dictionary.terms, DOMAIN dictionary.terms)
    /\ dictionary.total_documents = Cardinality(ContributingDocs(dictionary))

\* C25: the Dictionary SPIMIIndexer.finalize returns has total_words equal
\* to the sum of its entries' frequencies and total_documents equal to the
\* number of distinct documents that contributed a term.
C25_SpimiAggregates ==
    (spimi.state = "done") => AggregatesHold(spimi.dictionary)

---------------------------------------------------------------------------
(* The blocks of add_document.  The memory limit is a whole number of       *)
(* megabytes, so a block fills up within a few tokens only when the         *)
(* document identifiers are long: two postings of "alpha" for one of the    *)
(* identifiers below are estimated at exactly one megabyte.                 *)

LongIdLen == 524251     \* bytes of a long document identifier

RECURSIVE Pad(_)
\* a string of n characters
Pad(n) ==
    IF n = 0 THEN ""
    ELSE LET half == Pad(n \div 2)
         IN  half \o half \o (IF n % 2 = 1 THEN "x" ELSE "")

LongDocIds == {"a" \o Pad(LongIdLen - 1), "b" \o Pad(LongIdLen - 1)}

BlockInit ==
    /\ SearchInit
    /\ cdict = NoCdict
    /\ spimi = SPIMIIndexer_new(1)

BlockNext ==
    \E doc_id \in LongDocIds, text \in SpimiTexts : AddDocument(doc_id, text)

BlockSpec == BlockInit /\ [][BlockNext]_vars

\* the estimate of one token <<word, doc_id>>
Estimate(token) == Len(token[1]) + Len(token[2]) + PostingOverhead

RECURSIVE SumEstimates(_)
SumEstimates(tokens) ==
    IF tokens = <<>> THEN 0 ELSE Estimate(tokens[1]) + SumEstimates(Tail(tokens))

RECURSIVE Segments(_, _, _, _)
\* the token stream cut before every token that would take the estimate of
\* the segment under way beyond the limit: the closed segments, then the one
\* under way
Segments(input, limit, closed, held) ==
    IF input = <<>> THEN Append(closed, held)
    ELSE IF SumEstimates(held) + Estimate(input[1]) > limit
    THEN Segments(Tail(input), limit, Append(closed, held), <<input[1]>>)
    ELSE Segments(Tail(input), limit, closed, Append(held, input[1]))

\* the documents of the term in a segment, in the order of the tokens
SegmentDocs(segment, term) ==
    LET hits == SelectSeq(segment, LAMBDA token : token[1] = term)
    IN  [i \in 1..Len(hits) |-> hits[i][2]]

SegmentTerms(segment) == {segment[i][1] : i \in 1..Len(segment)}

\* C26: add_document writes a block and resets the map exactly when the next
\* token would take the estimate beyond memory_limit: the blocks written are
\* the closed segments of the token stream, current_index holds the tokens of
\* the segment under way, current_memory_usage is the sum of their estimates
\* and, when no single estimate exceeds the limit, at most memory_limit.
C26_BlockAccounting ==
    (spimi.state = "open") =>
        LET segments == Segments(spimi.input, spimi.memory_limit, <<>>, <<>>)
            held == segments[Len(segments)]
        IN  /\ spimi.block_count = Len(segments) - 1
            /\ Len(spimi.written) = Len(segments) - 1
            /\ \A k \in 1..(Len(segments) - 1) :
                   spimi.written[k] =
                       [t \in SegmentTerms(segments[k]) |->
                           SortedSeq(Range(SegmentDocs(segments[k], t)))]
            /\ spimi.current_index =
                   [t \in SegmentTerms(held) |-> SegmentDocs(held, t)]
            /\ spimi.current_memory_usage = SumEstimates(held)
            /\ (\A i \in 1..Len(spimi.input) :
                    Estimate(spimi.input[i]) <= spimi.memory_limit)
                   => spimi.current_memory_usage <= spimi.memory_limit

\* two tokens filled the limit exactly without a block being written, the
\* third token wrote the block and the fourth is held with it
C26_Witness ==
    /\ spimi.state = "open"
    /\ Len(spimi.input) = 4
    /\ spimi.block_count = 1
    /\ SumEstimates(SubSeq(spimi.input, 1, 2)) = spimi.memory_limit
    /\ DOMAIN spimi.written[1] = {"alpha"}
    /\ DOMAIN spimi.current_index = {"alpha", "beta"}
    /\ spimi.current_memory_usage < spimi.memory_limit

---------------------------------------------------------------------------
(* finalize with I/O errors: every `?` of finalize and merge_blocks returns *)
(* the error at once                                                        *)

\* where finalize can fail: writing the last block (File::create, writeln!,
\* flush), opening a block file, reading a line of a block file
IoErrors == {"write", "open", "read"}

\* SPIMIIndexer::finalize returning Err: the function returns from the failing
\* `?`, the clean-up loop at the end of merge_blocks is not reached
finalize_error(self, error) ==
    IF error = "write" THEN self
    ELSE IF DOMAIN self.current_index # {} THEN write_block_to_disk(self) ELSE self

\* finalize fails with an I/O error
FinalizeError(error) ==
    /\ spimi.state = "open"
    /\ error = "write" => DOMAIN spimi.current_index # {}
    /\ error = "open" => Len(finalize_error(spimi, error).disk) > 0
    /\ error = "read" =>
           \E b \in 1..Len(finalize_error(spimi, error).disk) :
               Len(finalize_error(spimi, error).disk[b]) > 0
    /\ spimi' = [finalize_error(spimi, error) EXCEPT !.state = "failed"]
    /\ UNCHANGED <<corpus, built, idx, op, res, cdict, wild, dict>>

FinalizeNext ==
    \/ \E doc_id \in DocIds, text \in SpimiTexts : AddDocument(doc_id, text)
    \/ Finalize
    \/ \E error \in IoErrors : FinalizeError(error)

FinalizeSpec == SpimiInit /\ [][FinalizeNext]_vars

\* C27: when finalize has returned, with the Dictionary or with an I/O
\* error, no scratch block file block_0 .. block_{n-1} is left in the
\* scratch directory.
C27_NoScratchLeft ==
    spimi.state \in {"done", "failed"} => spimi.disk = <<>>

---------------------------------------------------------------------------
(* spimi.rs: ParallelSPIMIIndexer                                          *)

\* ParallelSPIMIIndexer::new with num_threads = Some(threads), threads >= 1
ParallelSPIMIIndexer_new(memory_limit_mb, threads) ==
    [memory_limit_per_thread |-> (memory_limit_mb * BytesPerMb) \div threads,
     num_threads |-> threads]

RECURSIVE slice_chunks(_, _)
\* slice::chunks(chunk_size) for chunk_size > 0
slice_chunks(documents, chunk_size) ==
    IF documents = <<>> THEN <<>>
    ELSE IF Len(documents) <= chunk_size THEN <<documents>>
    ELSE <<SubSeq(documents, 1, chunk_size)>>
         \o slice_chunks(SubSeq(documents, chunk_size + 1, Len(documents)), chunk_size)

RECURSIVE add_documents(_, _)
\* the `for (i, (doc_id, text)) in chunk.iter().enumerate()` loop of build_index
add_documents(indexer, chunk) ==
    IF chunk = <<>> THEN indexer
    ELSE add_documents(add_document(indexer, chunk[1][1], chunk[1][2]), Tail(chunk))

\* one iteration of `for (chunk_idx, chunk) in chunks`: the partial dictionary
partial_dictionary(self, chunk) ==
    finalize(add_documents(
        SPIMIIndexer_new(self.memory_limit_per_thread \div BytesPerMb), chunk)).dictionary

\* the `for (term, entry) in dict.terms` loop of merge_dictionaries
merge_entries(final_terms, dict_terms) ==
    [term \in DOMAIN final_terms \cup DOMAIN dict_terms |->
        IF term \notin DOMAIN dict_terms THEN final_terms[term]
        ELSE LET final_entry == IF term \in DOMAIN final_terms THEN final_terms[term]
                                ELSE [frequency |-> 0, documents |-> <<>>]
             IN  [frequency |-> final_entry.frequency + dict_terms[term].frequency,
                  documents |-> final_entry.documents \o dict_terms[term].documents]]

RECURSIVE merge_dictionaries_loop(_, _)
\* the `for dict in dictionaries` loop of merge_dictionaries
merge_dictionaries_loop(final_dict, dictionaries) ==
    IF dictionaries = <<>> THEN final_dict
    ELSE LET dict1 == dictionaries[1]
         IN  merge_dictionaries_loop(
                 [terms |-> merge_entries(final_dict.terms, dict1.terms),
                  total_words |-> final_dict.total_words + dict1.total_words,
                  total_documents |-> final_dict.total_documents + dict1.total_documents,
                  collection_size_bytes |->
                      final_dict.collection_size_bytes + dict1.collection_size_bytes],
                 Tail(dictionaries))

\* ParallelSPIMIIndexer::merge_dictionaries, with the final deduplication
merge_dictionaries(dictionaries) ==
    LET final_dict == merge_dictionaries_loop(SPIMI_Dictionary_new, dictionaries)
    IN  [final_dict EXCEPT !.terms =
            [term \in DOMAIN final_dict.terms |->
                LET documents == SortedSeq(Range(final_dict.terms[term].documents))
                IN  [frequency |-> Len(documents), documents |-> documents]]]

\* ParallelSPIMIIndexer::build_index: Ok(dictionary), or the panic of
\* documents.chunks(0)
build_index(self, documents) ==
    LET chunk_size == (Len(documents) + self.num_threads - 1) \div self.num_threads
    IN  IF chunk_size = 0 THEN [state |-> "panic"]
        ELSE LET chunks == slice_chunks(documents, chunk_size)
             IN  [state |-> "ok",
                  chunks |-> Len(chunks),
                  dictionary |-> merge_dictionaries(
                      [i \in 1..Len(chunks) |-> partial_dictionary(self, chunks[i])])]

---------------------------------------------------------------------------
(* Parallel SPIMI indexing as a state machine: the documents are loaded,   *)
(* then build_index runs once                                              *)

MaxParallelDocs == 3    \* documents handed to build_index
MaxThreads == 3         \* num_threads of the parallel indexer

ParallelMemoryLimitsMb == {1, 2}
ParallelTexts == {"", "alpha", "alpha Beta,"}

ParallelInit ==
    /\ SearchInit
    /\ cdict = NoCdict
    /\ \E mb \in ParallelMemoryLimitsMb, threads \in 1..MaxThreads :
           spimi = [state |-> "loading", memory_limit_mb |-> mb,
                    indexer |-> ParallelSPIMIIndexer_new(mb, threads),
                    documents |-> <<>>]

\* main.rs: one more (id, text) pair of the loaded collection
LoadDocument(doc_id, text) ==
    /\ spimi.state = "loading"
    /\ Len(spimi.documents) < MaxParallelDocs
    /\ spimi' = [spimi EXCEPT !.documents = Append(@, <<doc_id, text>>)]
    /\ UNCHANGED <<corpus, built, idx, op, res, cdict, wild, dict>>

\* ParallelSPIMIIndexer::build_index
BuildIndex ==
    /\ spimi.state = "loading"
    /\ spimi' = [state |-> "built", memory_limit_mb |-> spimi.memory_limit_mb,
                 indexer |-> spimi.indexer, documents |-> spimi.documents,
                 result |-> build_index(spimi.indexer, spimi.documents)]
    /\ UNCHANGED <<corpus, built, idx, op, res, cdict, wild, dict>>

ParallelNext ==
    \/ \E doc_id \in DocIds, text \in ParallelTexts : LoadDocument(doc_id, text)
    \/ BuildIndex

ParallelSpec == ParallelInit /\ [][ParallelNext]_vars

\* the Dictionary a single SPIMIIndexer of the same budget builds on the input
SingleIndexer(memory_limit_mb, documents) ==
    finalize(add_documents(SPIMIIndexer_new(memory_limit_mb), documents)).dictionary

\* C24: for every document list, the empty one included, and every shard
\* count N >= 1, build_index returns a Dictionary whose term entries are the
\* ones a single SPIMIIndexer produces on the whole input.
C24_ParallelEqualsSingle ==
    (spimi.state = "built") =>
        /\ spimi.result.state = "ok"
        /\ spimi.result.dictionary.terms
               = SingleIndexer(spimi.memory_limit_mb, spimi.documents).terms

---------------------------------------------------------------------------
(* dictionary.rs: front_packing and CompressedDictionary.  A term is the   *)
(* sequence of its characters' code points; its bytes are their UTF-8      *)
(* encoding, which is what String::len, slicing and sorting work on.       *)

\* the UTF-8 encoding of a code point below U+0800
utf8_char(cp) == IF cp < 128 THEN <<cp>> ELSE <<192 + (cp \div 64), 128 + (cp % 64)>>

RECURSIVE as_bytes(_)
\* String::as_bytes
as_bytes(term) ==
    IF term = <<>> THEN <<>> ELSE utf8_char(term[1]) \o as_bytes(Tail(term))

\* str::is_char_boundary
is_char_boundary(bytes, n) ==
    \/ n = 0
    \/ n = Len(bytes)
    \/ n < Len(bytes) /\ ~(bytes[n + 1] >= 128 /\ bytes[n + 1] < 192)

RECURSIVE BytesLess(_, _)
\* the order of String: byte-wise lexicographic
BytesLess(a, b) ==
    IF b = <<>> THEN FALSE
    ELSE IF a = <<>> THEN TRUE
    ELSE IF a[1] # b[1] THEN a[1] < b[1]
    ELSE BytesLess(Tail(a), Tail(b))

RECURSIVE sort_terms(_)
\* terms.sort()
sort_terms(S) ==
    IF S = {} THEN <<>>
    ELSE LET m == CHOOSE x \in S : \A y \in S : ~BytesLess(as_bytes(y), as_bytes(x))
         IN  <<m>> \o sort_terms(S \ {m})

RECURSIVE common_prefix_loop(_, _, _)
\* the `for i in 0..first.len()` loop of find_common_prefix: Some(n) as <<n>>,
\* None (first.chars().nth(i)? past the last character) as <<>>
common_prefix_loop(terms, i, prefix_len) ==
    LET first == terms[1]
    IN  IF i >= Len(as_bytes(first)) THEN <<prefix_len>>
        ELSE IF i >= Len(first) THEN <<>>
        ELSE IF \A k \in 1..Len(terms) : i < Len(terms[k]) /\ terms[k][i + 1] = first[i + 1]
        THEN common_prefix_loop(terms, i + 1, i + 1)
        ELSE <<prefix_len>>

\* front_packing::find_common_prefix
find_common_prefix(terms) ==
    IF Len(terms) < 2 THEN <<0>> ELSE common_prefix_loop(terms, 0, 0)

RECURSIVE SumLen(_, _)
\* the sum of s.len() - minus over the terms
SumLen(terms, minus) ==
    IF terms = <<>> THEN 0
    ELSE (Len(as_bytes(terms[1])) - minus) + SumLen(Tail(terms), minus)

\* front_packing: a block is at most this many terms
MaxBlockTerms == 255

\* front_packing: bytes of a block header (prefix length, term count)
BlockHeaderBytes == 3

RECURSIVE optimal_block_loop(_, _, _, _)
\* the `for end in (start + 1)..=min(start + 255, terms.len())` loop of
\* find_optimal_block; best is [end, prefix_len, savings]
optimal_block_loop(terms, start, end, best) ==
    IF end > start + MaxBlockTerms \/ end > Len(terms) THEN best
    ELSE LET block == SubSeq(terms, start + 1, end)
             found == find_common_prefix(block)
         IN  IF found = <<>> \/ found[1] = 0
             THEN optimal_block_loop(terms, start, end + 1, best)
             ELSE LET prefix_len == found[1]
                      block_size == end - start
                      original_size == SumLen(block, 0) + Len(block)
                      compressed_size == BlockHeaderBytes + prefix_len + block_size
                                             + SumLen(block, prefix_len)
                      savings == original_size - compressed_size
                  IN  optimal_block_loop(terms, start, end + 1,
                          IF savings > best.savings
                          THEN [end |-> end, prefix_len |-> prefix_len, savings |-> savings]
                          ELSE best)

\* front_packing::find_optimal_block: [end, prefix_len]
find_optimal_block(terms, start) ==
    IF start >= Len(terms) THEN [end |-> start, prefix_len |-> 0]
    ELSE LET best == optimal_block_loop(terms, start, start + 1,
                         [end |-> start + 1, prefix_len |-> 0, savings |-> 0])
         IN  IF best.savings <= 0 THEN [end |-> start + 1, prefix_len |-> 0]
             ELSE [end |-> best.end, prefix_len |-> best.prefix_len]

RECURSIVE encode_suffixes(_, _)
\* the `for term in block_terms` loop: suffix length byte, then the suffix
encode_suffixes(block_terms, prefix_len) ==
    IF block_terms = <<>> THEN <<>>
    ELSE LET bytes == as_bytes(block_terms[1])
             suffix == SubSeq(bytes, prefix_len + 1, Len(bytes))
         IN  <<Len(suffix) % 256>> \o suffix
             \o encode_suffixes(Tail(block_terms), prefix_len)

RECURSIVE compress_loop(_, _, _)
\* the `while i < terms.len()` loop of compress_terms; acc is
\* [panicked, compressed_data, term_positions].  Slicing a String off a
\* character boundary panics.
compress_loop(terms, i, acc) ==
    IF i >= Len(terms) THEN acc
    ELSE LET found == find_optimal_block(terms, i)
             prefix_len == found.prefix_len
             block_terms == SubSeq(terms, i + 1, found.end)
             current_block_start == Len(acc.compressed_data)
             sliceable == \A k \in 1..Len(block_terms) :
                              /\ prefix_len <= Len(as_bytes(block_terms[k]))
                              /\ is_char_boundary(as_bytes(block_terms[k]), prefix_len)
             prefix == SubSeq(as_bytes(block_terms[1]), 1, prefix_len)
             header == <<prefix_len % 256, Len(block_terms) % 256,
                         (Len(block_terms) \div 256) % 256>>
         IN  IF ~sliceable THEN [acc EXCEPT !.panicked = TRUE]
             ELSE compress_loop(terms, found.end,
                      [acc EXCEPT
                          !.compressed_data = @ \o header \o prefix
                                                \o encode_suffixes(block_terms, prefix_len),
                          !.term_positions =
                              [t \in Range(block_terms) |->
                                  <<current_block_start,
                                    (CHOOSE k \in 1..Len(block_terms) :
                                         block_terms[k] = t) - 1>>] @@ @])

\* front_packing::compress_terms on the terms of a dictionary
compress_terms(terms) ==
    compress_loop(sort_terms(terms), 0,
                  [panicked |-> FALSE, compressed_data |-> <<>>,
                   term_positions |-> EmptyMap])

RECURSIVE terms_string_len(_)
\* dictionary.terms_string.len(): every term of the dictionary is appended to
\* terms_string once, so its length is the sum of the terms' byte lengths
terms_string_len(terms) ==
    IF terms = {} THEN 0
    ELSE LET t == CHOOSE x \in terms : TRUE
         IN  Len(as_bytes(t)) + terms_string_len(terms \ {t})

\* CompressedDictionary::from_dictionary, on the terms
\* dictionary.extract_terms_parallel() returns
CompressedDictionary_from_dictionary(terms) ==
    LET packed == compress_terms(terms)
    IN  IF packed.panicked
        THEN [state |-> "panicked", terms |-> terms]
        ELSE [state |-> "compressed", terms |-> terms,
              compressed_terms_data |-> packed.compressed_data,
              term_positions |-> packed.term_positions,
              original_terms_size |-> terms_string_len(terms),
              compressed_terms_size |-> Len(packed.compressed_data),
              lookup |-> <<>>, found |-> <<>>]

\* CompressedDictionary::get_term: Some(term) as <<term>>, None as <<>>
CompressedDictionary_get_term(self, term) ==
    IF term \in DOMAIN self.term_positions THEN <<term>> ELSE <<>>

---------------------------------------------------------------------------
(* The front-packed dictionary as a state machine                          *)

RECURSIVE Latin(_)
\* the code points of an ASCII string
Latin(s) == IF Len(s) = 0 THEN <<>> ELSE <<Ord(CharAt(s, 1))>> \o Latin(SubSeq(s, 2, Len(s)))

\* the Cyrillic small letters at the alphabet positions of the Latin letters
\* of s: "a" is U+0430, "k" is U+043A
Cyrillic(s) == [i \in 1..Len(s) |-> 1072 + (Latin(s)[i] - 97)]

\* the terms a dictionary is drawn from: Latin terms with common prefixes,
\* Cyrillic ones, mixed ones
TermUniverse ==
    {Latin("aaa"), Latin("aab"), Latin("aaba"), Latin("abb"),
     Cyrillic("kk") \o Latin("a"), Cyrillic("kkk") \o Latin("a"),
     Cyrillic("kkk") \o Latin("b"), Cyrillic("kkkk")}

\* a term no dictionary holds
OtherTerm == Latin("bab")

DictInit ==
    /\ SearchInit
    /\ spimi = NoSpimi
    /\ \E terms \in SUBSET TermUniverse : cdict = [state |-> "dictionary", terms |-> terms]

\* CompressedDictionary::from_dictionary
FromDictionary ==
    /\ cdict.state = "dictionary"
    /\ cdict' = CompressedDictionary_from_dictionary(cdict.terms)
    /\ UNCHANGED <<corpus, built, idx, op, res, spimi, wild, dict>>

\* CompressedDictionary::get_term
GetTerm(term) ==
    /\ cdict.state = "compressed"
    /\ cdict' = [cdict EXCEPT !.lookup = <<term>>,
                              !.found = CompressedDictionary_get_term(cdict, term)]
    /\ UNCHANGED <<corpus, built, idx, op, res, spimi, wild, dict>>

DictNext ==
    \/ FromDictionary
    \/ \E term \in TermUniverse \cup {OtherTerm} : GetTerm(term)

DictSpec == DictInit /\ [][DictNext]_vars

RECURSIVE DecodeSuffixes(_, _, _, _)
\* count suffixes read from data[i] on, each put after the prefix: the
\* decoded terms and the index after them
DecodeSuffixes(data, i, count, prefix) ==
    IF count = 0 THEN [terms |-> <<>>, next |-> i]
    ELSE LET suffix_len == data[i]
             rest == DecodeSuffixes(data, i + 1 + suffix_len, count - 1, prefix)
         IN  [terms |-> <<prefix \o SubSeq(data, i + 1, i + suffix_len)>> \o rest.terms,
              next |-> rest.next]

RECURSIVE DecodeBlocks(_, _)
\* every block of the buffer from data[i] on decoded as its stored prefix
\* followed by each stored suffix
DecodeBlocks(data, i) ==
    IF i > Len(data) THEN <<>>
    ELSE LET prefix_len == data[i]
             count == data[i + 1] + 256 * data[i + 2]
             prefix == SubSeq(data, i + 3, i + 2 + prefix_len)
             block == DecodeSuffixes(data, i + 3 + prefix_len, count, prefix)
         IN  block.terms \o DecodeBlocks(data, block.next)

\* C10: for every set of terms from_dictionary produces a buffer whose blocks
\* decode (prefix, then each suffix) to the sorted list of the terms, and
\* get_term(t) is t for every term of the dictionary and None otherwise.
C10_FrontPackedRoundTrip ==
    /\ cdict.state # "panicked"
    /\ (cdict.state = "compressed") =>
           /\ DecodeBlocks(cdict.compressed_terms_data, 1) =
                  [k \in 1..Cardinality(cdict.terms) |-> as_bytes(sort_terms(cdict.terms)[k])]
           /\ (cdict.lookup # <<>>) =>
                  cdict.found = IF cdict.lookup[1] \in cdict.terms
                                THEN cdict.lookup ELSE <<>>


---------------------------------------------------------------------------
(* permutation_index.rs, suffix_tree.rs, trigram_index.rs: the wildcard    *)
(* indices.  Terms and patterns are sequences of code points, as in the    *)
(* front-packed dictionary above.                                          *)

Star == Ord("*")
Question == Ord("?")
Marker == Ord("$")

\* str::ends_with and str::contains, on sequences of characters
ends_with(s, suffix) ==
    Len(s) >= Len(suffix) /\ SubSeq(s, Len(s) - Len(suffix) + 1, Len(s)) = suffix

contains(s, part) ==
    \E i \in 0..(Len(s) - Len(part)) : SubSeq(s, i + 1, i + Len(part)) = part

contains_char(s, c) == \E i \in 1..Len(s) : s[i] = c

\* the index of the first c in s (s contains c)
FirstIndex(s, c) == CHOOSE i \in 1..Len(s) : s[i] = c /\ \A j \in 1..(i - 1) : s[j] # c

RECURSIVE split_char(_, _)
\* str::split(c).collect()
split_char(s, c) ==
    IF ~contains_char(s, c) THEN <<s>>
    ELSE <<SubSeq(s, 1, FirstIndex(s, c) - 1)>>
         \o split_char(SubSeq(s, FirstIndex(s, c) + 1, Len(s)), c)

\* str::replacen(c, to, 1)
replacen_first(s, c, to) ==
    IF ~contains_char(s, c) THEN s
    ELSE SubSeq(s, 1, FirstIndex(s, c) - 1) \o to
         \o SubSeq(s, FirstIndex(s, c) + 1, Len(s))

\* PermutationIndex::generate_rotations_static
generate_rotations_static(term) ==
    LET chars == term \o <<Marker>>
    IN  [i \in 1..Len(chars) |-> SubSeq(chars, i, Len(chars)) \o SubSeq(chars, 1, i - 1)]

\* PermutationIndex::from_dictionary, from the terms extract_terms_parallel returns
PermutationIndex_from_dictionary(terms) ==
    LET rotations == UNION {Range(generate_rotations_static(t)) : t \in terms}
    IN  [index |-> [r \in rotations |->
                       {t \in terms : r \in Range(generate_rotations_static(t))}]]

\* PermutationIndex::matches_wildcard_pattern
matches_wildcard_pattern(rotation, pattern) ==
    IF contains_char(pattern, Marker)
    THEN IF ends_with(pattern, <<Marker>>)
         THEN starts_with(rotation, SubSeq(pattern, 1, Len(pattern) - 1))
         ELSE IF starts_with(pattern, <<Marker>>)
         THEN ends_with(rotation, SubSeq(pattern, 2, Len(pattern)))
         ELSE LET parts == split_char(pattern, Marker)
              IN  IF Len(parts) = 2 /\ parts[1] # <<>> /\ parts[2] # <<>>
                  THEN starts_with(rotation, parts[2]) /\ contains(rotation, parts[1])
                  ELSE FALSE
    ELSE contains(rotation, pattern)

\* the pattern_with_marker of PermutationIndex::find_matching_terms
pattern_with_marker(pattern) ==
    IF contains_char(pattern, Star)
    THEN IF ends_with(pattern, <<Star>>)
         THEN replacen_first(pattern, Star, <<Marker>>)
         ELSE IF starts_with(pattern, <<Star>>)
         THEN <<Marker>> \o SubSeq(pattern, 2, Len(pattern))
         ELSE LET parts == split_char(pattern, Star)
              IN  IF Len(parts) = 2 THEN parts[2] \o <<Marker>> \o parts[1]
                  ELSE pattern
    ELSE pattern \o <<Marker>>

\* PermutationIndex::find_matching_terms
PI_find_matching_terms(self, pattern) ==
    IF pattern = <<>> THEN {}
    ELSE IF contains_char(pattern, Star)
    THEN UNION {self.index[rotation] :
                   rotation \in {r \in DOMAIN self.index :
                       matches_wildcard_pattern(r, pattern_with_marker(pattern))}}
    ELSE UNION {self.index[rotation] :
                   rotation \in {r \in DOMAIN self.index :
                       starts_with(r, pattern_with_marker(pattern))}}


\* SuffixTree::new.  A node is named by the characters on the way from the
\* root to it; nodes maps each node to its `terms`, and the children of a
\* node are the nodes one character longer.  The root holds no terms.
SuffixTree_new == [nodes |-> (<<>> :> {})]

\* SuffixTree::insert_suffix: every node on the way down gets the term
SuffixTree_insert_suffix(self, suffix, original_term) ==
    LET visited == {SubSeq(suffix, 1, k) : k \in 1..Len(suffix)}
    IN  [nodes |-> [n \in DOMAIN self.nodes \cup visited |->
                       (IF n \in DOMAIN self.nodes THEN self.nodes[n] ELSE {})
                       \cup (IF n \in visited THEN {original_term} ELSE {})]]

RECURSIVE SuffixTree_add_term_from(_, _, _)
\* the `for start_idx in 0..term_chars.len()` loop of add_term
SuffixTree_add_term_from(self, term, start_idx) ==
    IF start_idx >= Len(term) THEN self
    ELSE SuffixTree_add_term_from(
             SuffixTree_insert_suffix(self, SubSeq(term, start_idx + 1, Len(term)), term),
             term, start_idx + 1)

\* SuffixTree::add_term
SuffixTree_add_term(self, term) == SuffixTree_add_term_from(self, term, 0)

RECURSIVE SuffixTree_add_terms(_, _)
SuffixTree_add_terms(self, terms) ==
    IF terms = {} THEN self
    ELSE LET term == CHOOSE t \in terms : TRUE
         IN  SuffixTree_add_terms(SuffixTree_add_term(self, term), terms \ {term})

\* SuffixTree::from_dictionary, from the terms extract_terms_parallel returns
SuffixTree_from_dictionary(terms) == SuffixTree_add_terms(SuffixTree_new, terms)

\* node.children.values()
SuffixNode_children(self, node) ==
    {n \in DOMAIN self.nodes : Len(n) = Len(node) + 1 /\ starts_with(n, node)}

\* the outcome of a search: the terms found, or a panic
Found(terms) == [panicked |-> FALSE, terms |-> terms]
Panicked == [panicked |-> TRUE, terms |-> {}]

\* results.extend over several calls, any of which may have panicked
ExtendAll(outcomes) ==
    IF \E o \in outcomes : o.panicked THEN Panicked
    ELSE Found(UNION {o.terms : o \in outcomes})

RECURSIVE find_with_wildcards(_, _, _)
\* SuffixTree::find_with_wildcards; `&pattern[1..]` cuts at byte 1, which
\* panics when the first character of the pattern takes more than one byte
find_with_wildcards(self, node, pattern) ==
    IF pattern = <<>> THEN Found(self.nodes[node])
    ELSE IF ~is_char_boundary(as_bytes(pattern), 1) THEN Panicked
    ELSE IF pattern[1] = Star
    THEN ExtendAll({Found(self.nodes[node])}
             \cup {find_with_wildcards(self, child, pattern) :
                      child \in SuffixNode_children(self, node)}
             \cup {find_with_wildcards(self, child, Tail(pattern)) :
                      child \in SuffixNode_children(self, node)})
    ELSE IF pattern[1] = Question
    THEN ExtendAll({find_with_wildcards(self, child, Tail(pattern)) :
                       child \in SuffixNode_children(self, node)})
    ELSE IF Append(node, pattern[1]) \in DOMAIN self.nodes
    THEN find_with_wildcards(self, Append(node, pattern[1]), Tail(pattern))
    ELSE Found({})

\* SuffixTree::find_matching_terms
ST_find_matching_terms(self, pattern) ==
    IF pattern = <<>> THEN Found({})
    ELSE find_with_wildcards(self, <<>>, pattern)


\* chars.windows(3) of a character sequence, as in the `for i in 0..=len-3` loops
Windows3(chars) == [i \in 1..(Len(chars) - 2) |-> SubSeq(chars, i, i + 2)]

\* TrigramIndex::generate_trigrams_static; term.len() counts bytes
generate_trigrams_static(term) ==
    IF Len(as_bytes(term)) < 3
    THEN <<(<<Marker, Marker>> \o term \o <<Marker, Marker>>)>>
    ELSE Windows3(<<Marker, Marker>> \o term)

\* TrigramIndex::from_dictionary, from the terms extract_terms_parallel returns
TrigramIndex_from_dictionary(terms) ==
    LET trigrams == UNION {Range(generate_trigrams_static(t)) : t \in terms}
    IN  [index |-> [g \in trigrams |->
                       {t \in terms : g \in Range(generate_trigrams_static(t))}]]

IsWildcard(c) == c = Star \/ c = Question

RECURSIVE glob_match_loop(_, _, _, _, _, _)
\* the first `while` of glob_match_bytes; star_pos is <<p>> (Some) or <<>>;
\* positions are 0-based as in the code.  The value is <<pattern_pos>> when
\* the text is consumed and <<>> when the function returns false.
glob_match_loop(text, pattern, text_pos, pattern_pos, star_pos, text_backup) ==
    IF text_pos >= Len(text) THEN <<pattern_pos>>
    ELSE IF pattern_pos < Len(pattern)
            /\ (pattern[pattern_pos + 1] = text[text_pos + 1]
                \/ pattern[pattern_pos + 1] = Question)
    THEN glob_match_loop(text, pattern, text_pos + 1, pattern_pos + 1,
                         star_pos, text_backup)
    ELSE IF pattern_pos < Len(pattern) /\ pattern[pattern_pos + 1] = Star
    THEN glob_match_loop(text, pattern, text_pos, pattern_pos + 1,
                         <<pattern_pos>>, text_pos)
    ELSE IF star_pos # <<>>
    THEN glob_match_loop(text, pattern, text_backup + 1, star_pos[1] + 1,
                         star_pos, text_backup + 1)
    ELSE <<>>

RECURSIVE skip_stars(_, _)
\* the second `while` of glob_match_bytes
skip_stars(pattern, pattern_pos) ==
    IF pattern_pos < Len(pattern) /\ pattern[pattern_pos + 1] = Star
    THEN skip_stars(pattern, pattern_pos + 1)
    ELSE pattern_pos

\* TrigramIndex::glob_match_bytes, on the bytes of the text and the pattern
glob_match_bytes(text, pattern) ==
    LET reached == glob_match_loop(text, pattern, 0, 0, <<>>, 0)
    IN  reached # <<>> /\ skip_stars(pattern, reached[1]) = Len(pattern)

\* TrigramIndex::glob_match / matches_wildcard / matches_pattern
glob_match(text, pattern) == glob_match_bytes(as_bytes(text), as_bytes(pattern))

RECURSIVE find_longest_consecutive_loop(_, _, _, _)
\* TrigramIndex::find_longest_consecutive_chars from character i on;
\* String::len counts bytes
find_longest_consecutive_loop(chars, i, longest, current) ==
    IF i > Len(chars)
    THEN IF Len(as_bytes(current)) > Len(as_bytes(longest)) THEN current ELSE longest
    ELSE IF ~IsWildcard(chars[i])
    THEN find_longest_consecutive_loop(chars, i + 1, longest, Append(current, chars[i]))
    ELSE find_longest_consecutive_loop(chars, i + 1,
             IF Len(as_bytes(current)) > Len(as_bytes(longest)) THEN current ELSE longest,
             <<>>)

find_longest_consecutive_chars(pattern) ==
    find_longest_consecutive_loop(pattern, 1, <<>>, <<>>)

\* TrigramIndex::extract_required_trigrams
extract_required_trigrams(pattern) ==
    LET trigrams == SelectSeq(Windows3(pattern),
                        LAMBDA window : \A k \in 1..3 : ~IsWildcard(window[k]))
        consecutive_chars == find_longest_consecutive_chars(pattern)
    IN  IF trigrams = <<>> /\ Len(as_bytes(pattern)) >= 3
           /\ Len(as_bytes(consecutive_chars)) >= 3
        THEN Windows3(<<Marker, Marker>> \o consecutive_chars)
        ELSE trigrams

RECURSIVE trigram_candidates(_, _, _, _)
\* the `for trigram in ...` loop narrowing the candidates; candidates is
\* <<set>> (Some) or <<>> (None); a trigram missing from the index ends the
\* search with no term
trigram_candidates(self, trigrams, i, candidates) ==
    IF i > Len(trigrams)
    THEN IF candidates = <<>> THEN {} ELSE candidates[1]
    ELSE IF trigrams[i] \in DOMAIN self.index
    THEN trigram_candidates(self, trigrams, i + 1,
             IF candidates = <<>> THEN <<self.index[trigrams[i]]>>
             ELSE <<candidates[1] \cap self.index[trigrams[i]]>>)
    ELSE {}

\* TrigramIndex::find_exact_match
find_exact_match(self, pattern) ==
    {term \in trigram_candidates(self, generate_trigrams_static(pattern), 1, <<>>) :
        term = pattern}

\* TrigramIndex::find_matching_terms
TI_find_matching_terms(self, pattern) ==
    IF pattern = <<>> THEN {}
    ELSE IF ~contains_char(pattern, Star) /\ ~contains_char(pattern, Question)
    THEN find_exact_match(self, pattern)
    ELSE IF extract_required_trigrams(pattern) = <<>>
    THEN {term \in UNION {self.index[g] : g \in DOMAIN self.index} :
             glob_match(term, pattern)}
    ELSE {term \in trigram_candidates(self, extract_required_trigrams(pattern), 1, <<>>) :
             glob_match(term, pattern)}


---------------------------------------------------------------------------
(* wildcard_search.rs: WildcardSearchEngine, over a Dictionary of ASCII    *)
(* terms; a query string is handed to the wildcard indices as its          *)
(* characters                                                              *)

\* Dictionary::extract_terms_parallel: the terms cut out of terms_string
extract_terms_parallel(d) == {Dictionary_get_term(d, sp)[1] : sp \in DOMAIN d.terms}

\* WildcardSearchEngine::from_dictionary
WildcardSearchEngine_from_dictionary(dictionary) ==
    LET terms == {Latin(t) : t \in extract_terms_parallel(dictionary)}
    IN  [inverted_index |-> CompressedInvertedIndex_from_dictionary(dictionary),
         suffix_tree |-> SuffixTree_from_dictionary(terms),
         permutation_index |-> PermutationIndex_from_dictionary(terms),
         trigram_index |-> TrigramIndex_from_dictionary(terms),
         dictionary |-> dictionary]

\* WildcardSearchEngine::analyze_wildcard_complexity; the ratio
\* wildcard_count / total_chars < 0.5 is 2 * wildcard_count < total_chars
analyze_wildcard_complexity(pattern) ==
    LET wildcard_count == Cardinality({i \in 1..Len(pattern) : IsWildcard(pattern[i])})
        total_chars == Len(as_bytes(pattern))
    IN  IF wildcard_count = 0 THEN "Simple"
        ELSE IF wildcard_count = 1 THEN "Simple"
        ELSE IF wildcard_count <= 2 /\ 2 * wildcard_count < total_chars THEN "Medium"
        ELSE "Complex"

\* the Medium branch of find_matching_terms
medium_matching_terms(suffix_results, perm_results, trigram_results) ==
    IF suffix_results.panicked THEN Panicked
    ELSE LET reliable_intersection == suffix_results.terms \cap perm_results
             full_intersection == reliable_intersection \cap trigram_results
         IN  IF trigram_results = {} THEN Found(reliable_intersection)
             ELSE IF full_intersection = {} THEN Found(reliable_intersection)
             ELSE Found(full_intersection)

\* WildcardSearchEngine::find_matching_terms
WSE_find_matching_terms(self, pattern) ==
    IF analyze_wildcard_complexity(pattern) = "Simple"
    THEN IF starts_with(pattern, <<Star>>) /\ ends_with(pattern, <<Star>>)
         THEN ST_find_matching_terms(self.suffix_tree, pattern)
         ELSE Found(PI_find_matching_terms(self.permutation_index, pattern))
    ELSE IF analyze_wildcard_complexity(pattern) = "Medium"
    THEN medium_matching_terms(
             ST_find_matching_terms(self.suffix_tree, pattern),
             PI_find_matching_terms(self.permutation_index, pattern),
             TI_find_matching_terms(self.trigram_index, pattern))
    ELSE Found(TI_find_matching_terms(self.trigram_index, pattern))

\* the documents wildcard_search collects for one matching term: those of
\* the dictionary entry whose term it is
term_documents(dictionary, term) ==
    UNION {dictionary.terms[sp].documents :
              sp \in {q \in DOMAIN dictionary.terms :
                         Latin(Dictionary_get_term(dictionary, q)[1]) = term}}

\* WildcardSearchEngine::wildcard_search; a panic ends the search with no result
wildcard_search(self, pattern) ==
    LET matching_terms == WSE_find_matching_terms(self, pattern)
    IN  IF matching_terms.panicked THEN Err("panic", 0)
        ELSE Ok(UNION {term_documents(self.dictionary, term) :
                          term \in matching_terms.terms}, 0)

\* WildcardSearchEngine::exact_search
exact_search(self, term) == CII_search(self.inverted_index, term)

\* WildcardSearchEngine::search
WSE_search(self, query) ==
    IF query = "" THEN Err("Empty query", 0)
    ELSE IF ~contains_char(Latin(query), Star) /\ ~contains_char(Latin(query), Question)
    THEN exact_search(self, query)
    ELSE wildcard_search(self, Latin(query))


---------------------------------------------------------------------------
(* The wildcard engine as a state machine: a Dictionary is filled by       *)
(* add_term, the engine is built from it, one query is searched            *)

MaxEngineAdds == 3      \* add_term calls before the engine is built

EngineTerms == {"hello", "help", "world", "shell"}
EngineDocs == {"doc1", "doc2"}
EngineQueries ==
    {"", "hello", "zzz", "hel*", "*lo", "h?lp", "*", "*el*", "he*l*", "h*l?",
     "w*d", "?????", "h*"}

\* a new Dictionary, nothing else in use
OpenDict == [state |-> "open", dictionary |-> Dictionary_new, calls |-> 0]

EngineInit ==
    /\ corpus = <<>>
    /\ built = FALSE
    /\ idx = BuildAll(<<>>)
    /\ op = NoOp
    /\ res = NoRes
    /\ spimi = NoSpimi
    /\ cdict = NoCdict
    /\ wild = NoWild
    /\ dict = OpenDict

\* Dictionary::add_term
AddTerm(term, document) ==
    /\ dict.state = "open"
    /\ wild.state = "none"
    /\ dict.calls < MaxEngineAdds
    /\ dict' = [dict EXCEPT !.dictionary = add_term(@, term, document),
                            !.calls = @ + 1]
    /\ UNCHANGED <<corpus, built, idx, op, res, spimi, cdict, wild>>

\* WildcardSearchEngine::from_dictionary
EngineBuild ==
    /\ dict.state = "open"
    /\ wild.state = "none"
    /\ wild' = [state |-> "engine",
                engine |-> WildcardSearchEngine_from_dictionary(dict.dictionary)]
    /\ UNCHANGED <<corpus, built, idx, op, res, spimi, cdict, dict>>

\* WildcardSearchEngine::search
EngineSearch(query) ==
    /\ wild.state = "engine"
    /\ wild' = [state |-> "searched", engine |-> wild.engine, query |-> query,
                result |-> WSE_search(wild.engine, query)]
    /\ UNCHANGED <<corpus, built, idx, op, res, spimi, cdict, dict>>

EngineNext ==
    \/ \E term \in EngineTerms, document \in EngineDocs : AddTerm(term, document)
    \/ EngineBuild
    \/ \E query \in EngineQueries : EngineSearch(query)

EngineSpec == EngineInit /\ [][EngineNext]_vars

RECURSIVE GlobMatches(_, _)
\* the glob relation on characters, anchored at both ends: '*' stands for
\* any substring, '?' for exactly one character
GlobMatches(text, pattern) ==
    IF pattern = <<>> THEN text = <<>>
    ELSE IF pattern[1] = Star
    THEN \E k \in 0..Len(text) : GlobMatches(SubSeq(text, k + 1, Len(text)), Tail(pattern))
    ELSE /\ text # <<>>
         /\ pattern[1] = Question \/ pattern[1] = text[1]
         /\ GlobMatches(Tail(text), Tail(pattern))

HasWildcard(pattern) == contains_char(pattern, Star) \/ contains_char(pattern, Question)

\* the documents of the dictionary's terms that glob-match the pattern
GlobDocs(dictionary, pattern) ==
    UNION {DictDocs(dictionary, term) :
              term \in {t \in DictTerms(dictionary) : GlobMatches(Latin(t), pattern)}}

\* C11: for every dictionary and every pattern containing '*' or '?',
\* WildcardSearchEngine.search succeeds with exactly the union of the
\* document sets of the terms that glob-match the pattern.
C11_WildcardSearchExact ==
    (wild.state = "searched" /\ HasWildcard(Latin(wild.query))) =>
        /\ wild.result.ok
        /\ wild.result.val = GlobDocs(dict.dictionary, Latin(wild.query))


---------------------------------------------------------------------------
(* The three wildcard indices as a state machine: they are built from a    *)
(* set of terms, then one index is asked for the terms matching a pattern  *)

MaxIndexTerms == 3      \* terms in the indexed set
MaxPatternLen == 3      \* characters in a pattern

\* the terms a set is drawn from: Latin, Cyrillic and mixed ones
WildTerms ==
    {Latin("ab"), Latin("bab"), Latin("abb"), Latin("ba"),
     Cyrillic("kk"), Latin("a") \o Cyrillic("kk")}

\* the characters of a pattern: two Latin letters, a Cyrillic one, '*', '?'
PatternChars == {Latin("a")[1], Latin("b")[1], Cyrillic("k")[1], Star, Question}

Patterns == UNION {[1..k -> PatternChars] : k \in 0..MaxPatternLen}

IndexInit ==
    /\ corpus = <<>>
    /\ built = FALSE
    /\ idx = BuildAll(<<>>)
    /\ op = NoOp
    /\ res = NoRes
    /\ spimi = NoSpimi
    /\ cdict = NoCdict
    /\ dict = NoDict
    /\ \E terms \in {S \in SUBSET WildTerms : Cardinality(S) <= MaxIndexTerms} :
           wild = [state |-> "terms", terms |-> terms]

\* PermutationIndex, SuffixTree and TrigramIndex ::from_dictionary
IndexBuild ==
    /\ wild.state = "terms"
    /\ wild' = [state |-> "indices", terms |-> wild.terms,
                permutation_index |-> PermutationIndex_from_dictionary(wild.terms),
                suffix_tree |-> SuffixTree_from_dictionary(wild.terms),
                trigram_index |-> TrigramIndex_from_dictionary(wild.terms)]
    /\ UNCHANGED <<corpus, built, idx, op, res, spimi, cdict, dict>>

\* the state after one find_matching_terms call
Searched(index, pattern, outcome) ==
    [state |-> "found", terms |-> wild.terms, index |-> index,
     pattern |-> pattern, outcome |-> outcome]

\* PermutationIndex::find_matching_terms
PermFind(pattern) ==
    /\ wild.state = "indices"
    /\ wild' = Searched("permutation", pattern,
                   Found(PI_find_matching_terms(wild.permutation_index, pattern)))
    /\ UNCHANGED <<corpus, built, idx, op, res, spimi, cdict, dict>>

\* SuffixTree::find_matching_terms
SuffixFind(pattern) ==
    /\ wild.state = "indices"
    /\ wild' = Searched("suffix", pattern,
                   ST_find_matching_terms(wild.suffix_tree, pattern))
    /\ UNCHANGED <<corpus, built, idx, op, res, spimi, cdict, dict>>

\* TrigramIndex::find_matching_terms
TrigramFind(pattern) ==
    /\ wild.state = "indices"
    /\ wild' = Searched("trigram", pattern,
                   Found(TI_find_matching_terms(wild.trigram_index, pattern)))
    /\ UNCHANGED <<corpus, built, idx, op, res, spimi, cdict, dict>>

IndexNext ==
    \/ IndexBuild
    \/ \E pattern \in Patterns : PermFind(pattern)
    \/ \E pattern \in Patterns : SuffixFind(pattern)
    \/ \E pattern \in Patterns : TrigramFind(pattern)

IndexSpec == IndexInit /\ [][IndexNext]_vars

\* the terms of a set that glob-match the pattern
GlobTerms(terms, pattern) == {t \in terms : GlobMatches(t, pattern)}

\* a pattern of the form X*, *X or X*Y: exactly one '*' and no '?'
OneStar(pattern) ==
    /\ Cardinality({i \in 1..Len(pattern) : pattern[i] = Star}) = 1
    /\ ~contains_char(pattern, Question)

\* C12: for every term set and every pattern with exactly one '*',
\* PermutationIndex.find_matching_terms returns exactly the terms that
\* glob-match the pattern.
C12_PermutationExact ==
    (wild.state = "found" /\ wild.index = "permutation" /\ OneStar(wild.pattern)) =>
        wild.outcome.terms = GlobTerms(wild.terms, wild.pattern)

\* C13: for every term set and every non-empty pattern, every term
\* SuffixTree.find_matching_terms returns glob-matches the pattern.
C13_SuffixTreeContained ==
    (wild.state = "found" /\ wild.index = "suffix" /\ wild.pattern # <<>>) =>
        /\ ~wild.outcome.panicked
        /\ wild.outcome.terms \subseteq GlobTerms(wild.terms, wild.pattern)

\* C14: for every term set and every pattern with at least one wildcard,
\* TrigramIndex.find_matching_terms returns exactly the indexed terms that
\* glob-match the pattern.
C14_TrigramExact ==
    (wild.state = "found" /\ wild.index = "trigram" /\ HasWildcard(wild.pattern)) =>
        wild.outcome.terms = GlobTerms(wild.terms, wild.pattern)

\* the terms of a set that contain s as a substring
ContainingTerms(terms, s) == {t \in terms : contains(t, s)}

\* every node below the root holds exactly the inserted terms that contain
\* the string leading to it
NodesHoldContainingTerms(tree, terms) ==
    \A s \in DOMAIN tree.nodes :
        s # <<>> => tree.nodes[s] = ContainingTerms(terms, s)

\* a non-empty pattern without '*' and '?'
WildcardFree(pattern) == pattern # <<>> /\ ~HasWildcard(pattern)

\* C29: after a suffix tree is built from a term set, the node reached from
\* the root by a string s holds exactly the inserted terms that contain s,
\* and find_matching_terms(P) for a wildcard-free pattern P returns every
\* term that contains P.
C29_SuffixTreeSubstrings ==
    /\ wild.state = "indices" =>
           NodesHoldContainingTerms(wild.suffix_tree, wild.terms)
    /\ (wild.state = "found" /\ wild.index = "suffix" /\ WildcardFree(wild.pattern)) =>
           /\ ~wild.outcome.panicked
           /\ ContainingTerms(wild.terms, wild.pattern) \subseteq wild.outcome.terms

\* the node part of C29 alone
C29_NodesOnly ==
    wild.state = "indices" => NodesHoldContainingTerms(wild.suffix_tree, wild.terms)

\* the search part of C29 for patterns of ASCII characters only
C29_AsciiSearch ==
    (wild.state = "found" /\ wild.index = "suffix" /\ WildcardFree(wild.pattern)
        /\ Len(as_bytes(wild.pattern)) = Len(wild.pattern)) =>
           /\ ~wild.outcome.panicked
           /\ wild.outcome.terms = ContainingTerms(wild.terms, wild.pattern)


---------------------------------------------------------------------------
(* Errors of the Boolean evaluators                                        *)

\* the term operands of a prefix expression
ExprTerms(e) == {e[i] : i \in {j \in 1..Len(e) : e[j] \notin Keywords}}

\* the term operands of the expression that the corpus does not contain
AbsentTerms(files, e) == ExprTerms(e) \ KnownTerms(files)

\* C15: a Boolean query with a term operand absent from the index makes
\* CompressedInvertedIndex.search fail with a term-not-found error and no
\* result set, wherever the term occurs.
C15_AbsentTermFails ==
    (op.kind = "bool" /\ AbsentTerms(corpus, op.expr) # {}) =>
        /\ ~res.cii.ok
        /\ res.cii.val = {}
        /\ \E t \in AbsentTerms(corpus, op.expr) :
               res.cii.err = "Term '" \o t \o "' not found"

\* the absent term under 'not', in parentheses, as an operand of 'or' whose
\* other operand has documents
C15_Witness ==
    /\ op.kind = "bool"
    /\ op.query = "not (alpha or beta)"
    /\ Len(corpus) = 2
    /\ KnownTerms(corpus) = {"alpha"}
    /\ ~res.cii.ok
    /\ res.cii.err = "Term 'beta' not found"


RECURSIVE ParenDepth(_, _, _)
\* the nesting depth after the tokens from i on, or -1 once a ")" had no "("
ParenDepth(ts, i, depth) ==
    IF depth < 0 THEN -1
    ELSE IF i > Len(ts) THEN depth
    ELSE ParenDepth(ts, i + 1,
             IF ts[i] = "(" THEN depth + 1
             ELSE IF ts[i] = ")" THEN depth - 1 ELSE depth)

\* an opening parenthesis is never closed, or a closing one matches none
Unbalanced(ts) == ParenDepth(ts, 1, 0) # 0

\* C16: every evaluator's search fails for every query whose parentheses
\* are unbalanced, an unclosed "(" and an unmatched ")" alike.
C16_UnbalancedFails ==
    (op.kind = "raw" /\ Unbalanced(op.words)) =>
        /\ ~res.cii.ok
        /\ ~res.im.ok
        /\ ~res.ci.ok
        /\ ~res.bi.ok


\* C17: a phrase of fewer than two words is an error in both phrase
\* evaluators, BigramIndex.search_phrase and CoordinateIndex.search_phrase:
\* never a term lookup result or an empty set.
C17_ShortPhraseFails ==
    (op.kind = "phrase" /\ Len(op.words) < 2) =>
        /\ ~res.bi.ok
        /\ ~res.ci.ok


---------------------------------------------------------------------------
(* Dictionary under add_term and merge_terms                               *)

MaxMergeLen == 2        \* <<term, document>> pairs in one merge_terms call

DictOpTerms == {"alpha", "beta"}
DictOpDocs == {"d1", "d2"}

\* the argument lists of merge_terms
TermLists ==
    UNION {[1..k -> DictOpTerms \X DictOpDocs] : k \in 0..MaxMergeLen}

DictOpsInit == EngineInit

\* Dictionary::merge_terms
MergeTerms(terms) ==
    /\ dict.state = "open"
    /\ wild.state = "none"
    /\ dict.calls < MaxEngineAdds
    /\ dict' = [dict EXCEPT !.dictionary = merge_terms(@, terms),
                            !.calls = @ + 1]
    /\ UNCHANGED <<corpus, built, idx, op, res, spimi, cdict, wild>>

DictOpsNext ==
    \/ \E term \in DictOpTerms, document \in DictOpDocs : AddTerm(term, document)
    \/ \E terms \in TermLists : MergeTerms(terms)

DictOpsSpec == DictOpsInit /\ [][DictOpsNext]_vars

RECURSIVE SumFrequency(_, _)
\* the sum of the frequency fields of the entries at the positions in keys
SumFrequency(terms, keys) ==
    IF keys = {} THEN 0
    ELSE LET k == CHOOSE x \in keys : TRUE
         IN  terms[k].frequency + SumFrequency(terms, keys \ {k})

\* C18: after any sequence of add_term and merge_terms calls on a new
\* Dictionary, total_words is the sum of the entries' frequencies and every
\* entry's frequency is at least the number of its documents.
C18_TotalsConsistent ==
    dict.state = "open" =>
        LET d == dict.dictionary
        IN  /\ d.total_words = SumFrequency(d.terms, DOMAIN d.terms)
            /\ \A sp \in DOMAIN d.terms :
                   d.terms[sp].frequency >= Cardinality(d.terms[sp].documents)

\* a merge of several pairs has run, one term was added twice for the same
\* document and another term has two documents
C18_Witness ==
    /\ dict.state = "open"
    /\ dict.dictionary.total_words > dict.calls
    /\ \E sp \in DOMAIN dict.dictionary.terms :
           dict.dictionary.terms[sp].frequency
               > Cardinality(dict.dictionary.terms[sp].documents)
    /\ \E sp \in DOMAIN dict.dictionary.terms :
           Cardinality(dict.dictionary.terms[sp].documents) = 2


---------------------------------------------------------------------------
(* The build over files that may fail to load: build_dictionary, then the  *)
(* bigram and the positional index built by re-reading the documents       *)

\* A file of the input directory tree: its file name, its size, the outcome
\* of the first read ("ok", "no_metadata", "parse_error"), the words the
\* parser yields, and whether the read by name of the index builders succeeds
BuildFiles ==
    [name : {DocName(1), DocName(2)},
     size : {MinFileSize - 1, MinFileSize},
     read : {"ok", "no_metadata", "parse_error"},
     words : Texts(MaxBoolDocLen),
     reread : BOOLEAN]

\* lib.rs build_dictionary, the closure of the parallel map: Some(..) or None
FileAccepted(file) ==
    /\ file.read # "no_metadata"
    /\ file.size >= MinFileSize
    /\ file.read # "parse_error"

\* the Some(..) results of the parallel map, in the order of the files
parse_results(files) == SelectSeq(files, FileAccepted)

\* the parser callback main.rs hands to the index builders: the file of that
\* name is parsed again, the result is Ok(words) or Err
ParserResults(files) ==
    [name \in {files[i].name : i \in 1..Len(files)} |->
        LET file == files[CHOOSE i \in 1..Len(files) :
                              /\ files[i].name = name
                              /\ \A j \in 1..(i - 1) : files[j].name # name]
        IN  [ok |-> file.reread, words |-> file.words]]

ParsedWords(parser) == [name \in DOMAIN parser |-> parser[name].words]

\* `let words = file_parser(document)?;` in the loop over the documents
ParserFails(dictionary, parser) ==
    \E document \in DictDocuments(dictionary) : ~parser[document].ok

\* BigramIndex::from_dictionary_with_parser with a parser that can fail
BigramIndex_build(dictionary, parser) ==
    IF ParserFails(dictionary, parser) THEN [state |-> "err"]
    ELSE [state |-> "ok",
          index |-> BigramIndex_from_dictionary_with_parser(
                        dictionary, ParsedWords(parser))]

\* CoordinateIndex::from_dictionary_with_parser with a parser that can fail
CoordinateIndex_build(dictionary, parser) ==
    IF ParserFails(dictionary, parser) THEN [state |-> "err"]
    ELSE [state |-> "ok",
          index |-> CoordinateIndex_from_dictionary_with_parser(
                        dictionary, ParsedWords(parser))]

NotBuilt == [state |-> "none"]

BuildInit ==
    /\ SearchInit
    /\ spimi = NoSpimi
    /\ cdict = NoCdict

\* collect_fb2_files finds one more file
AddPath(file) ==
    /\ dict.state = "none"
    /\ Len(corpus) < MaxDocs
    /\ corpus' = Append(corpus, file)
    /\ UNCHANGED <<built, idx, op, res, spimi, cdict, wild, dict>>

\* lib.rs build_dictionary
BuildDictionary ==
    /\ dict.state = "none"
    /\ dict' = [state |-> "dictionary",
                dictionary |-> build_dictionary(parse_results(corpus)),
                bigram |-> NotBuilt, coordinate |-> NotBuilt]
    /\ UNCHANGED <<corpus, built, idx, op, res, spimi, cdict, wild>>

\* BigramIndex::from_dictionary_with_parser
BuildBigram ==
    /\ dict.state = "dictionary"
    /\ dict.bigram.state = "none"
    /\ dict' = [dict EXCEPT !.bigram =
                    BigramIndex_build(dict.dictionary, ParserResults(corpus))]
    /\ UNCHANGED <<corpus, built, idx, op, res, spimi, cdict, wild>>

\* CoordinateIndex::from_dictionary_with_parser
BuildCoordinate ==
    /\ dict.state = "dictionary"
    /\ dict.coordinate.state = "none"
    /\ dict' = [dict EXCEPT !.coordinate =
                    CoordinateIndex_build(dict.dictionary, ParserResults(corpus))]
    /\ UNCHANGED <<corpus, built, idx, op, res, spimi, cdict, wild>>

BuildNext ==
    \/ \E file \in BuildFiles : AddPath(file)
    \/ BuildDictionary
    \/ BuildBigram
    \/ BuildCoordinate

BuildSpec == BuildInit /\ [][BuildNext]_vars

\* C19: in every Dictionary produced by build_dictionary, total_documents
\* is the number of distinct document identifiers in the entries' document
\* sets, also when a file yields no tokens or two files share a file name.
C19_TotalDocuments ==
    dict.state = "dictionary" =>
        dict.dictionary.total_documents
            = Cardinality(DictDocuments(dict.dictionary))

\* C20: a document that fails to load or parse is skipped and nothing else:
\* the dictionary build, the bigram build and the positional build complete
\* and hold the contributions of all the other documents.
C20_FailureSkipsDocument ==
    dict.state = "dictionary" =>
        /\ \A i \in 1..Len(corpus) :
               FileAccepted(corpus[i]) =>
                   \A w \in Range(corpus[i].words) :
                       /\ w \in DOMAIN dict.dictionary.term_lookup
                       /\ corpus[i].name \in DictDocs(dict.dictionary, w)
        /\ dict.bigram.state # "none" =>
               /\ dict.bigram.state = "ok"
               /\ \A d \in DictDocuments(dict.dictionary) :
                      ParserResults(corpus)[d].ok =>
                          \A b \in Bigrams(ParserResults(corpus)[d].words) :
                              /\ b \in DOMAIN dict.bigram.index.index
                              /\ d \in Range(dict.bigram.index.index[b])
        /\ dict.coordinate.state # "none" =>
               /\ dict.coordinate.state = "ok"
               /\ \A d \in DictDocuments(dict.dictionary) :
                      ParserResults(corpus)[d].ok =>
                          \A w \in Range(ParserResults(corpus)[d].words) :
                              /\ w \in DOMAIN dict.coordinate.index.index
                              /\ \E k \in 1..Len(dict.coordinate.index.index[w]) :
                                     dict.coordinate.index.index[w][k].document = d


---------------------------------------------------------------------------
(* Tokens left over by the recursive descent                               *)

\* C30: an evaluator's search returns a result only if the recursive descent
\* consumed every token of the query; a query with tokens left after a
\* complete expression ("alpha alpha": two terms, no operator) fails.
C30_AllTokensConsumed ==
    op.kind = "raw" =>
        /\ res.cii.ok => res.cii.pos = Len(op.words)
        /\ res.im.ok => res.im.pos = Len(op.words)
        /\ res.ci.ok => res.ci.pos = Len(op.words)
        /\ res.bi.ok => res.bi.pos = Len(op.words)


---------------------------------------------------------------------------
(* The size of the front-packed buffer                                     *)

RECURSIVE SkipSuffixes(_, _, _)
\* the index after count length-prefixed suffixes that start at data[i]
SkipSuffixes(data, i, count) ==
    IF count = 0 THEN i ELSE SkipSuffixes(data, i + 1 + data[i], count - 1)

RECURSIVE HasSavingBlock(_, _)
\* a block from data[i] on holds two or more terms under a non-empty prefix
HasSavingBlock(data, i) ==
    IF i > Len(data) THEN FALSE
    ELSE LET prefix_len == data[i]
             count == data[i + 1] + 256 * data[i + 2]
         IN  \/ prefix_len > 0 /\ count >= 2
             \/ HasSavingBlock(data, SkipSuffixes(data, i + 3 + prefix_len, count))

\* C22: when front-packing formed a block with positive savings, the
\* compressed buffer is strictly smaller than the concatenation of all
\* terms: compressed_terms_size < original_terms_size.
C22_CompressedSmaller ==
    (cdict.state = "compressed" /\ HasSavingBlock(cdict.compressed_terms_data, 1)) =>
        cdict.compressed_terms_size < cdict.original_terms_size


---------------------------------------------------------------------------
(* The parallel builders: chunk workers, the shared mutex, and two builds  *)
(* of the compressed index                                                 *)

ChunkSize == 1000       \* chunk_size of the four builders
MaxParTerms == 1001     \* terms handed to a builder: one more than a chunk
MaxBuildPairs == 3      \* (term, document) pairs of the corpus built twice

\* the letters of the generated terms: 'a'..'z' and six Cyrillic letters
ParAlphabet == [i \in 1..32 |-> IF i <= 26 THEN 96 + i ELSE 1045 + i]

\* the k-th two-letter term in ascending order, k from 0
ParTerm(k) ==
    <<ParAlphabet[(k \div Len(ParAlphabet)) + 1], ParAlphabet[(k % Len(ParAlphabet)) + 1]>>

\* what extract_terms_parallel returns: n terms in ascending order
ParTerms(n) == [k \in 1..n |-> ParTerm(k - 1)]

ParTermCounts == {0, 3, MaxParTerms}

BuilderKinds ==
    {"SuffixTree::from_dictionary", "SuffixTree::from_compressed_dictionary",
     "PermutationIndex::from_dictionary", "TrigramIndex::from_dictionary"}

IsSuffixKind(kind) ==
    kind \in {"SuffixTree::from_dictionary", "SuffixTree::from_compressed_dictionary"}

RECURSIVE SuffixTree_add_range(_, _, _, _)
\* `for term in chunk { tree.add_term(term) }` over terms[lo..hi], in order;
\* the tree after terms[lo..mid] is compared with itself so that it is
\* evaluated before the terms after mid are added to it
SuffixTree_add_range(self, terms, lo, hi) ==
    IF lo > hi THEN self
    ELSE IF lo = hi THEN SuffixTree_add_term(self, terms[lo])
    ELSE LET mid == (lo + hi) \div 2
             tree == SuffixTree_add_range(self, terms, lo, mid)
         IN  IF tree = tree
             THEN SuffixTree_add_range(tree, terms, mid + 1, hi)
             ELSE tree

\* merge_trees that replaces a node's terms instead of extending them
merge_trees_replace(global, local) ==
    [nodes |-> [n \in DOMAIN global.nodes \cup DOMAIN local.nodes |->
                   IF n \in DOMAIN local.nodes THEN local.nodes[n]
                   ELSE global.nodes[n]]]

\* SuffixTree::merge_trees: the terms of every local node are added to the
\* global node on the same path, which is created when missing
merge_trees(global, local) ==
    [nodes |-> [n \in DOMAIN global.nodes \cup DOMAIN local.nodes |->
                   (IF n \in DOMAIN global.nodes THEN global.nodes[n] ELSE {})
                   \cup (IF n \in DOMAIN local.nodes THEN local.nodes[n] ELSE {})]]

\* the merge loop under the lock of PermutationIndex / TrigramIndex
\* ::from_dictionary: global.entry(key).or_insert_with(HashSet::new).extend(set)
extend_index(global_index, local) ==
    [key \in DOMAIN global_index \cup DOMAIN local |->
        (IF key \in DOMAIN global_index THEN global_index[key] ELSE {})
        \cup (IF key \in DOMAIN local THEN local[key] ELSE {})]

\* the structure behind the mutex before any worker ran
EmptyStructure(kind) == IF IsSuffixKind(kind) THEN SuffixTree_new ELSE EmptyMap

\* what a worker builds from its chunk without the lock
LocalStructure(kind, chunk) ==
    CASE kind = "SuffixTree::from_compressed_dictionary" ->
             SuffixTree_add_range(SuffixTree_new, chunk, 1, Len(chunk))
      [] kind = "PermutationIndex::from_dictionary" ->
             PermutationIndex_from_dictionary(Range(chunk)).index
      [] kind = "TrigramIndex::from_dictionary" ->
             TrigramIndex_from_dictionary(Range(chunk)).index

\* what a sequential build over all the terms produces
SequentialStructure(kind, terms) ==
    CASE IsSuffixKind(kind) -> SuffixTree_add_range(SuffixTree_new, terms, 1, Len(terms))
      [] kind = "PermutationIndex::from_dictionary" ->
             PermutationIndex_from_dictionary(Range(terms)).index
      [] kind = "TrigramIndex::from_dictionary" ->
             TrigramIndex_from_dictionary(Range(terms)).index

\* a chunk worker before it ran: next is the index of the term the loop of
\* SuffixTree::from_dictionary is at, local_terms and locked_terms count the
\* terms worked on without and with the mutex held
NewWorker ==
    [pc |-> "start", next |-> 1, local |-> EmptyMap, acquisitions |-> 0,
     local_terms |-> 0, locked_terms |-> 0]

\* terms.chunks(chunk_size).collect() and the Arc<Mutex<..>> around the
\* empty structure; one worker per chunk
StartBuild(kind) ==
    /\ wild.state = "terms"
    /\ LET chunks == slice_chunks(wild.terms, ChunkSize)
       IN  wild' = [state |-> "building", kind |-> kind, terms |-> wild.terms,
                    chunks |-> chunks,
                    workers |-> [w \in 1..Len(chunks) |-> NewWorker],
                    holder |-> 0, first |-> 0,
                    global |-> EmptyStructure(kind)]
    /\ UNCHANGED <<corpus, built, idx, op, res, spimi, cdict, dict>>

\* the local loop of a worker of from_compressed_dictionary and of the
\* permutation and trigram builders; no shared state is touched
LocalWork(w) ==
    /\ wild.state = "building"
    /\ w \in DOMAIN wild.workers
    /\ wild.kind # "SuffixTree::from_dictionary"
    /\ wild.workers[w].pc = "start"
    /\ wild' = [wild EXCEPT
                   !.workers[w].pc = "ready",
                   !.workers[w].local = LocalStructure(wild.kind, wild.chunks[w]),
                   !.workers[w].local_terms = Len(wild.chunks[w])]
    /\ UNCHANGED <<corpus, built, idx, op, res, spimi, cdict, dict>>

\* Mutex::lock returns: the mutex is free and the worker is at a lock() call,
\* inside the term loop in SuffixTree::from_dictionary, after the local loop
\* in the other builders
Acquire(w) ==
    /\ wild.state = "building"
    /\ w \in DOMAIN wild.workers
    /\ wild.holder = 0
    /\ IF wild.kind = "SuffixTree::from_dictionary"
       THEN wild.workers[w].pc = "start"
       ELSE wild.workers[w].pc = "ready"
    /\ wild' = [wild EXCEPT
                   !.holder = w,
                   !.first = IF @ = 0 THEN w ELSE @,
                   !.workers[w].pc = "locked",
                   !.workers[w].acquisitions = @ + 1]
    /\ UNCHANGED <<corpus, built, idx, op, res, spimi, cdict, dict>>

\* the body of `if let Ok(guard) = lock()` and the drop of the guard:
\* add_term of one term in SuffixTree::from_dictionary, the merge of the
\* local structure in the other builders
UnderLock(w) ==
    /\ wild.state = "building"
    /\ w \in DOMAIN wild.workers
    /\ wild.holder = w
    /\ wild.workers[w].pc = "locked"
    /\ LET self == wild.workers[w]
           chunk == wild.chunks[w]
       IN  wild' =
             IF wild.kind = "SuffixTree::from_dictionary"
             THEN [wild EXCEPT
                      !.holder = 0,
                      !.global = SuffixTree_add_term(@, chunk[self.next]),
                      !.workers[w].next = @ + 1,
                      !.workers[w].locked_terms = @ + 1,
                      !.workers[w].pc =
                          IF self.next = Len(chunk) THEN "done" ELSE "start"]
             ELSE [wild EXCEPT
                      !.holder = 0,
                      !.global = IF IsSuffixKind(wild.kind)
                                 THEN merge_trees(@, self.local)
                                 ELSE extend_index(@, self.local),
                      !.workers[w].pc = "done"]
    /\ UNCHANGED <<corpus, built, idx, op, res, spimi, cdict, dict>>

\* for_each returned: Arc::try_unwrap(..).unwrap().into_inner().unwrap()
FinishBuild ==
    /\ wild.state = "building"
    /\ \A w \in DOMAIN wild.workers : wild.workers[w].pc = "done"
    /\ wild' = [state |-> "built", kind |-> wild.kind, terms |-> wild.terms,
                chunks |-> wild.chunks, workers |-> wild.workers,
                first |-> wild.first, result |-> wild.global]
    /\ UNCHANGED <<corpus, built, idx, op, res, spimi, cdict, dict>>

\* the documents of the corpus built twice, and its (term, document) pairs
BuildDocs == {"d1", "d2", "d3"}
BuildPairs == DictOpTerms \X BuildDocs
PairLists == UNION {[1..k -> BuildPairs] : k \in 0..MaxBuildPairs}

\* the orders in which n things can be taken
Orders(n) == {p \in [1..n -> 1..n] : \A i, j \in 1..n : p[i] = p[j] => i = j}

\* the orders in which a HashSet of documents can be iterated
IterationOrders ==
    {p \in [1..Cardinality(BuildDocs) -> BuildDocs] :
        \A i, j \in DOMAIN p : p[i] = p[j] => i = j}

RECURSIVE IterateIn(_, _)
\* docs.iter() of a HashSet whose elements come out in the given order
IterateIn(docs, order) ==
    IF order = <<>> THEN <<>>
    ELSE (IF order[1] \in docs THEN <<order[1]>> ELSE <<>>)
         \o IterateIn(docs, Tail(order))

\* CompressedInvertedIndex::from_inverted_index (the sequential branch) when
\* the document sets are iterated in the given order
from_inverted_index_in(index, order) ==
    LET doc_id_to_name == SortedSeq(Range(index.documents))
        doc_name_to_id == [name \in Range(doc_id_to_name) |->
                              (CHOOSE i \in 1..Len(doc_id_to_name) :
                                   doc_id_to_name[i] = name) - 1]
    IN  [compressed_index |->
             [term \in DOMAIN index.index |->
                 encode_delta_vb(filter_map_ids(IterateIn(index.index[term], order),
                                                doc_name_to_id))],
         doc_id_to_name |-> doc_id_to_name,
         doc_name_to_id |-> doc_name_to_id]

\* Dictionary::merge_terms, InvertedIndex::from_dictionary and
\* CompressedInvertedIndex::from_inverted_index over the pairs
BuildCompressed(pairs, order) ==
    from_inverted_index_in(
        InvertedIndex_from_dictionary(merge_terms(Dictionary_new, pairs)), order)

\* the outcome of two builds over the pairs
BuiltTwice(pairs, shuffle, first_order, second_order) ==
    [state |-> "built_twice", pairs |-> pairs, shuffle |-> shuffle,
     first_order |-> first_order, second_order |-> second_order,
     first |-> BuildCompressed(pairs, first_order),
     second |-> BuildCompressed([i \in 1..Len(pairs) |-> pairs[shuffle[i]]],
                                second_order)]

\* two builds over the same corpus: the second takes the pairs in another
\* order and iterates the document sets in an order of its own
BuildTwice ==
    /\ wild.state = "none"
    /\ \E pairs \in PairLists, second_order \in IterationOrders :
           \E shuffle \in Orders(Len(pairs)) :
               wild' = BuiltTwice(pairs, shuffle, HashIter(BuildDocs), second_order)
    /\ UNCHANGED <<corpus, built, idx, op, res, spimi, cdict, dict>>

ParBuildInit ==
    /\ corpus = <<>>
    /\ built = FALSE
    /\ idx = BuildAll(<<>>)
    /\ op = NoOp
    /\ res = NoRes
    /\ spimi = NoSpimi
    /\ cdict = NoCdict
    /\ dict = NoDict
    /\ wild \in {NoWild} \cup {[state |-> "terms", terms |-> ParTerms(n)] : n \in ParTermCounts}

ParBuildNext ==
    \/ \E kind \in BuilderKinds : StartBuild(kind)
    \/ \E w \in 1..((MaxParTerms + ChunkSize - 1) \div ChunkSize) : LocalWork(w)
    \/ \E w \in 1..((MaxParTerms + ChunkSize - 1) \div ChunkSize) : Acquire(w)
    \/ \E w \in 1..((MaxParTerms + ChunkSize - 1) \div ChunkSize) : UnderLock(w)
    \/ FinishBuild
    \/ BuildTwice

ParBuildSpec == ParBuildInit /\ [][ParBuildNext]_vars

\* C21: two builds over the same corpus give the same document ids and the
\* same compressed posting bytes for every term, whatever the order in which
\* pairs are merged and document sets are iterated; and whatever the
\* interleaving of the chunk workers, the permutation index, the trigram
\* index and the suffix tree equal the ones a sequential build produces.
C21_BuildsAgree ==
    /\ wild.state = "built_twice" => wild.first = wild.second
    /\ wild.state = "built" =>
           wild.result = SequentialStructure(wild.kind, wild.terms)

\* two chunks, the worker of the second chunk took the mutex first
C21_Witness ==
    /\ wild.state = "built"
    /\ wild.kind = "SuffixTree::from_compressed_dictionary"
    /\ Len(wild.chunks) = 2
    /\ wild.first = 2

\* C28: in every parallel build each chunk worker acquires the mutex exactly
\* once, after its local work on the chunk is finished, and works on no term
\* while it holds the mutex; the critical sections are as many as the chunks.
C28_OneCriticalSectionPerChunk ==
    /\ wild.state \in {"building", "built"} =>
           \A w \in DOMAIN wild.workers :
               LET self == wild.workers[w]
               IN  /\ self.acquisitions <= 1
                   /\ self.locked_terms = 0
                   /\ self.pc \in {"locked", "done"} =>
                          /\ self.acquisitions = 1
                          /\ self.local_terms = Len(wild.chunks[w])
    /\ wild.state = "built" =>
           \A w \in DOMAIN wild.workers : wild.workers[w].acquisitions = 1

=============================================================================
